---------------------------- MODULE Spec2Model ----------------------------
(***************************************************************************)
(* Model of the Spotify -> YouTube Music converter:                        *)
(*   - services/youtube.py          matcher and confidence scorer          *)
(*   - utils/image_cache.py         thumbnail cache                        *)
(*   - services/youtube_playlist.py OAuth session and playlist creation    *)
(*   - services/spotify.py          playlist reference                     *)
(*                                                                         *)
(* Text is modelled as sequences of one-character strings, so that         *)
(* lower(), split() and the substring test `in` are computed as Python     *)
(* computes them.  Confidence scores are counted in tenths (0.5 -> 5).     *)
(***************************************************************************)
EXTENDS Integers, Sequences, FiniteSets, TLC

VARIABLES
    \* ---- scorer (youtube.py, _calculate_match_confidence)
    sc_artist,      \* original_artist
    sc_track,       \* original_track
    sc_result,      \* yt_result
    sc_score,       \* the scores returned so far, in tenths
    \* ---- image cache (image_cache.py)
    cache_files,    \* files of the cache directory: records [url, ext, complete]
    requests,       \* url -> number of GET requests issued for it
    cache_hist,     \* url -> calls since the last eviction: [ret, req, resp, raised]
    \* ---- matcher (youtube.py, search_playlist_tracks)
    spotify_df,     \* input rows
    m_pc,           \* "idle" | "loop" | "returned"
    m_idx,          \* number of rows already processed
    all_results,    \* rows produced so far
    m_outcomes,     \* per processed row, what the search API did
    best_matches,   \* what get_best_matches gave (kind "none" before it ends)
    \* ---- one search (youtube.py, search_track)
    st_artist,      \* artist
    st_track,       \* track_name
    st_api,         \* what ytmusic.search does: raise, or return results
    st_ret,         \* what search_track gave: kind "none" | "list" | "raised"
    \* ---- OAuth session (youtube_playlist.py)
    token_file,     \* youtube_token.pickle: NoCredentials or the pickled record
    svc,            \* "none" before construction, "ready" after __init__
    credentials,    \* self.credentials: NoCredentials (None) or a record
    youtube,        \* self.youtube has been built
    has_flow,       \* hasattr(self, '_flow')
    last_op,        \* the last operation and what it gave its caller
    \* ---- playlist creation (youtube_playlist.py, create_playlist_from_tracks)
    tracks_df,      \* input rows
    threshold,      \* confidence_threshold in tenths
    s_pc,           \* "idle" | "create" | "loop" | "returned" | "raised"
    s_i,            \* number of valid tracks already iterated
    playlist,       \* the playlist on YouTube: [created, items]
    create_ret,     \* what create_playlist gave ("none" before it is called)
    tracks_added,
    tracks_failed,
    api_calls,      \* write-API invocations, in order
    append_outcomes,\* what each add_video_to_playlist call gave
    s_result,       \* the returned dictionary (kind "none" before the return)
    \* ---- playlist reference (spotify.py, extract_playlist_id)
    playlist_url,   \* the argument, a string
    ex_ret,         \* what the call gave: kind "none" | "id" | "ValueError"
    \* ---- playlist extraction (spotify.py, get_playlist_tracks)
    f_pc,           \* "idle" | "loop" | "returned" | "raised"
    offset,         \* offset of the next request
    tracks_data,    \* rows collected so far
    f_requests,     \* the playlist_tracks requests issued, in order: [offset, limit]
    f_pages,        \* what the API answered to each of them
    \* ---- two concurrent callers of get_cached_image (image_cache.py)
    r_pc,           \* caller -> "idle" | "probe" | "get" | "open" | "stream" | "done"
    r_url,          \* caller -> the URL it asks for
    r_ext,          \* caller -> the extension of the file it is about to write
    r_ret,          \* caller -> what its call returned (NoPath before it ends)
    r_probe,        \* what the caller's look into the cache found: "none" before it
    r_writes,       \* the cache files written, in order: [caller, path]
    \* ---- front end (streamlit_app.py, st.session_state)
    pending_playlist_creation,
    playlist_creation_data,  \* [set, tracks_df, confidence_threshold]
    fe_pressed,     \* the Create-playlist button has been pressed
    fe_playlists    \* playlists created on YouTube by the runs that have ended

scoreVars == <<sc_artist, sc_track, sc_result, sc_score>>
cacheVars == <<cache_files, requests, cache_hist>>
matchVars == <<spotify_df, m_pc, m_idx, all_results, m_outcomes, best_matches>>
searchVars == <<st_artist, st_track, st_api, st_ret>>
authVars  == <<token_file, svc, credentials, youtube, has_flow, last_op>>
syncVars  == <<tracks_df, threshold, s_pc, s_i, playlist, create_ret, tracks_added,
               tracks_failed, api_calls, append_outcomes, s_result>>
extractVars == <<playlist_url, ex_ret>>
fetchVars == <<f_pc, offset, tracks_data, f_requests, f_pages>>
raceVars  == <<r_pc, r_url, r_ext, r_ret, r_probe, r_writes>>
frontVars == <<pending_playlist_creation, playlist_creation_data, fe_pressed,
               fe_playlists>>
vars == <<scoreVars, cacheVars, matchVars, authVars, syncVars, extractVars,
          searchVars, fetchVars, raceVars, frontVars>>

\* what a step of one component leaves alone
ScoreFrame == UNCHANGED <<cacheVars, matchVars, authVars, syncVars, extractVars,
                          searchVars, fetchVars, raceVars, frontVars>>
CacheFrame == UNCHANGED <<scoreVars, matchVars, authVars, syncVars, extractVars,
                          searchVars, fetchVars, raceVars, frontVars>>
MatchFrame == UNCHANGED <<scoreVars, authVars, syncVars, extractVars,
                          searchVars, fetchVars, raceVars, frontVars>>
AuthFrame  == UNCHANGED <<scoreVars, cacheVars, matchVars, syncVars, extractVars,
                          searchVars, fetchVars, raceVars, frontVars>>
SyncFrame  == UNCHANGED <<scoreVars, cacheVars, matchVars, extractVars,
                          searchVars, fetchVars, raceVars, frontVars>>
SearchFrame == UNCHANGED <<scoreVars, cacheVars, matchVars, authVars, syncVars,
                          extractVars, fetchVars, raceVars, frontVars>>
ExtractFrame == UNCHANGED <<scoreVars, cacheVars, matchVars, authVars, syncVars,
                          searchVars, fetchVars, raceVars, frontVars>>
FetchFrame == UNCHANGED <<scoreVars, cacheVars, matchVars, authVars, syncVars,
                          extractVars, searchVars, raceVars, frontVars>>
RaceFrame  == UNCHANGED <<scoreVars, matchVars, authVars, syncVars, extractVars,
                          searchVars, fetchVars, frontVars>>
FrontFrame == UNCHANGED <<scoreVars, cacheVars, matchVars, extractVars,
                          searchVars, fetchVars, raceVars>>

-----------------------------------------------------------------------------
(* Bounds of the model *)

\* artists of one search result
MaxArtists == 2
\* rows of the DataFrame given to create_playlist_from_tracks
MaxTracks == 3
\* rows of the DataFrame given to search_playlist_tracks
MaxRows == 2
\* results of one search
MaxResults == 2
\* get_cached_image calls on one URL between two evictions, and requests
\* issued for one URL
MaxCalls == 2
\* pieces a playlist URL given to extract_playlist_id is made of
MaxUrlParts == 4
\* pages the Spotify API returns for one playlist
MaxPages == 2
\* entries of one page
MaxPageItems == 2
\* playlists the runs of the front end create before the model stops them
MaxPlaylists == 2

-----------------------------------------------------------------------------
(* Text *)

Min(a, b) == IF a < b THEN a ELSE b

\* str.lower() on one character
LowerChar(c) ==
    CASE c = "A" -> "a"
      [] c = "B" -> "b"
      [] c = "C" -> "c"
      [] c = "D" -> "d"
      [] c = "E" -> "e"
      [] OTHER -> c

\* str.lower()
Lower(s) == [i \in 1..Len(s) |-> LowerChar(s[i])]

\* `a in b` for two strings
IsSubstr(a, b) ==
    \E i \in 0..(Len(b) - Len(a)) : SubSeq(b, i + 1, i + Len(a)) = a

\* str.split(): the maximal runs of non-blank characters
RECURSIVE SplitFrom(_, _, _)
SplitFrom(s, i, cur) ==
    IF i > Len(s)
    THEN IF cur = <<>> THEN <<>> ELSE <<cur>>
    ELSE IF s[i] = " "
         THEN (IF cur = <<>> THEN <<>> ELSE <<cur>>) \o SplitFrom(s, i + 1, <<>>)
         ELSE SplitFrom(s, i + 1, Append(cur, s[i]))

Split(s) == SplitFrom(s, 1, <<>>)

Range(f) == {f[i] : i \in DOMAIN f}

SeqsUpTo(S, n) == UNION {[1..k -> S] : k \in 0..n}

Str_empty  == <<>>
Str_abc    == <<"a", "b", "c">>
Str_Abc    == <<"A", "b", "c">>
Str_abcx   == <<"a", "b", "c", "x">>
Str_xabc   == <<"x", "a", "b", "c">>
Str_abc_de == <<"a", "b", "c", " ", "d", "e">>
Str_ABC_de == <<"A", "B", "C", " ", "D", "E">>
Str_de     == <<"d", "e">>
Str_zzz    == <<"z", "z", "z">>

-----------------------------------------------------------------------------
(* Confidence scorer *)

\* The title and artist strings the scorer is exercised on
SrcArtists == {Str_empty, Str_Abc, Str_abc_de}
SrcTitles == {Str_empty, Str_Abc, Str_abc_de, Str_de}
CandTitles == {Str_empty, Str_abc, Str_ABC_de, Str_xabc, Str_zzz}
CandArtistNames == {Str_abc, Str_abcx, Str_ABC_de, Str_zzz}

\* A search result of ytmusic.search as the code reads it
YtResult(title, artists, album, videoId, thumb) ==
    [title |-> title, artists |-> artists, album |-> album,
     videoId |-> videoId, thumb |-> thumb]

\* if original_track_lower in yt_title / elif any(word in yt_title ...)
TitleScore(original_track_lower, yt_title) ==
    IF IsSubstr(original_track_lower, yt_title) THEN 5
    ELSE IF \E w \in Range(Split(original_track_lower)) :
                Len(w) > 2 /\ IsSubstr(w, yt_title)
         THEN 3
         ELSE 0

\* An artist score that adds the partial-match credit to the full-match credit
ArtistScoreAdditive(original_artist_lower, yt_artists) ==
    (IF \E k \in DOMAIN yt_artists :
           \/ IsSubstr(original_artist_lower, yt_artists[k])
           \/ IsSubstr(yt_artists[k], original_artist_lower)
     THEN 4 ELSE 0)
    + (IF \E k \in DOMAIN yt_artists :
             \E w \in Range(Split(original_artist_lower)) :
                 Len(w) > 2 /\ IsSubstr(w, yt_artists[k])
       THEN 2 ELSE 0)

\* the first loop over yt_artists, then the partial-match loop
ArtistScore(original_artist_lower, yt_artists) ==
    IF \E k \in DOMAIN yt_artists :
           \/ IsSubstr(original_artist_lower, yt_artists[k])
           \/ IsSubstr(yt_artists[k], original_artist_lower)
    THEN 4
    ELSE IF \E k \in DOMAIN yt_artists :
                \E w \in Range(Split(original_artist_lower)) :
                    Len(w) > 2 /\ IsSubstr(w, yt_artists[k])
         THEN 2
         ELSE 0

\* A bonus given for an equal title alone
BonusScoreTitleOnly(original_artist_lower, original_track_lower, yt_title, yt_artists) ==
    IF original_track_lower = yt_title THEN 1 ELSE 0

\* Bonus for exact matches
BonusScore(original_artist_lower, original_track_lower, yt_title, yt_artists) ==
    IF /\ original_track_lower = yt_title
       /\ \E k \in DOMAIN yt_artists : original_artist_lower = yt_artists[k]
    THEN 1
    ELSE 0

\* A scorer that adds the token credit on top of the full-title credit and
\* returns the sum as it is
CalcMatchConfidenceUnclamped(original_artist, original_track, yt_result) ==
    LET yt_title == Lower(yt_result.title)
        yt_artists == [k \in DOMAIN yt_result.artists |-> Lower(yt_result.artists[k])]
        a == Lower(original_artist)
        t == Lower(original_track)
    IN (IF IsSubstr(t, yt_title) THEN 5 ELSE 0)
       + (IF \E w \in Range(Split(t)) : Len(w) > 2 /\ IsSubstr(w, yt_title)
          THEN 3 ELSE 0)
       + ArtistScore(a, yt_artists)
       + BonusScore(a, t, yt_title, yt_artists)

CalcMatchConfidence(original_artist, original_track, yt_result) ==
    LET yt_title == Lower(yt_result.title)
        yt_artists == [k \in DOMAIN yt_result.artists |-> Lower(yt_result.artists[k])]
        original_artist_lower == Lower(original_artist)
        original_track_lower == Lower(original_track)
        score == TitleScore(original_track_lower, yt_title)
                 + ArtistScore(original_artist_lower, yt_artists)
                 + BonusScore(original_artist_lower, original_track_lower,
                              yt_title, yt_artists)
    IN Min(score, 10)

-----------------------------------------------------------------------------
(* Image cache *)

\* A URL is the pair of what identifies it and the image suffix its text
\* holds; NoUrl is the empty string.  md5 is taken to be injective on Urls.
NoUrl == [id |-> "", suffix |-> ""]
Urls == {[id |-> "a", suffix |-> ""], [id |-> "b", suffix |-> ".png"]}

\* The content-type header of a response ("" when there is none)
ContentTypes == {"image/jpeg", "image/png", "image/webp", "text/html", ""}

\* What session.get and the streaming of the body can do
Responses ==
    {[kind |-> "transport", ct |-> ""], [kind |-> "status", ct |-> ""]}
    \cup {[kind |-> k, ct |-> c] : k \in {"ok", "stream"}, c \in ContentTypes}

Extensions == <<"jpg", "png", "webp">>

DetectImageFormat(url, content_type) ==
    IF content_type \in {"image/jpeg", "image/jpg"} THEN "jpg"
    ELSE IF content_type = "image/png" THEN "png"
    ELSE IF content_type = "image/webp" THEN "webp"
    ELSE IF url.suffix = ".png" THEN "png"
    ELSE IF url.suffix = ".webp" THEN "webp"
    ELSE "jpg"

\* cache_dir / _get_cache_filename(url, ext)
CachePath(url, ext) == [url |-> url, ext |-> ext]

\* None, where a path is expected
NoPath == [url |-> NoUrl, ext |-> ""]

Exists(files, url, ext) == \E f \in files : f.url = url /\ f.ext = ext

\* A cache that downloads without looking for a cached file first
GetCachedImageNoProbe(url, resp, files) ==
    IF url = NoUrl THEN [ret |-> NoPath, files |-> files, req |-> 0, raised |-> FALSE]
    ELSE IF resp.kind \in {"transport", "status"}
    THEN [ret |-> NoPath, files |-> files, req |-> 1, raised |-> FALSE]
    ELSE LET ext == DetectImageFormat(url, resp.ct)
             rest == {f \in files : ~(f.url = url /\ f.ext = ext)}
         IN [ret |-> IF resp.kind = "ok" THEN CachePath(url, ext) ELSE NoPath,
             files |-> rest \cup {[url |-> url, ext |-> ext,
                                   complete |-> resp.kind = "ok"]},
             req |-> 1, raised |-> FALSE]

\* A get_cached_image without its try/except: the exceptions of session.get,
\* raise_for_status and iter_content leave it
GetCachedImageUncaught(url, resp, files) ==
    IF url = NoUrl THEN [ret |-> NoPath, files |-> files, req |-> 0, raised |-> FALSE]
    ELSE IF \E k \in 1..3 : Exists(files, url, Extensions[k])
    THEN LET k == CHOOSE j \in 1..3 :
                      /\ Exists(files, url, Extensions[j])
                      /\ \A h \in 1..(j - 1) : ~Exists(files, url, Extensions[h])
         IN [ret |-> CachePath(url, Extensions[k]), files |-> files, req |-> 0,
             raised |-> FALSE]
    ELSE IF resp.kind \in {"transport", "status"}
    THEN [ret |-> NoPath, files |-> files, req |-> 1, raised |-> TRUE]
    ELSE LET ext == DetectImageFormat(url, resp.ct)
             rest == {f \in files : ~(f.url = url /\ f.ext = ext)}
         IN [ret |-> IF resp.kind = "ok" THEN CachePath(url, ext) ELSE NoPath,
             files |-> rest \cup {[url |-> url, ext |-> ext,
                                   complete |-> resp.kind = "ok"]},
             req |-> 1, raised |-> resp.kind # "ok"]

\* get_cached_image(url) when the network answers resp: what it returns, the
\* files it leaves, the number of requests it issued, and whether an
\* exception leaves it (the except branch returns None for every exception)
GetCachedImage(url, resp, files) ==
    IF url = NoUrl THEN [ret |-> NoPath, files |-> files, req |-> 0, raised |-> FALSE]
    ELSE IF \E k \in 1..3 : Exists(files, url, Extensions[k])
    THEN LET k == CHOOSE j \in 1..3 :
                      /\ Exists(files, url, Extensions[j])
                      /\ \A h \in 1..(j - 1) : ~Exists(files, url, Extensions[h])
         IN [ret |-> CachePath(url, Extensions[k]), files |-> files, req |-> 0, raised |-> FALSE]
    ELSE IF resp.kind \in {"transport", "status"}
    THEN [ret |-> NoPath, files |-> files, req |-> 1, raised |-> FALSE]
    ELSE LET ext == DetectImageFormat(url, resp.ct)
             rest == {f \in files : ~(f.url = url /\ f.ext = ext)}
         IN \* open(cache_path, 'wb') creates the file before the body is read
            [ret |-> IF resp.kind = "ok" THEN CachePath(url, ext) ELSE NoPath,
             files |-> rest \cup {[url |-> url, ext |-> ext,
                                   complete |-> resp.kind = "ok"]},
             req |-> 1, raised |-> FALSE]

NoHist == [u \in Urls \cup {NoUrl} |-> <<>>]
NoRequests == [u \in Urls \cup {NoUrl} |-> 0]

\* cache_image(url) / get_cached_image(url)
CacheCall(url, resp) ==
    /\ Len(cache_hist[url]) < MaxCalls
    /\ LET r == GetCachedImage(url, resp, cache_files)
       IN /\ requests[url] + r.req <= MaxCalls
          /\ cache_files' = r.files
          /\ requests' = [requests EXCEPT ![url] = @ + r.req]
          /\ cache_hist' = [cache_hist EXCEPT
                               ![url] = Append(@, [ret |-> r.ret, req |-> r.req,
                                                   resp |-> IF r.req = 1
                                                            THEN resp.kind
                                                            ELSE "none",
                                                   raised |-> r.raised])]
    /\ CacheFrame

\* clear_cache(max_age_days): the files older than the cutoff are unlinked
ClearCache(old) ==
    /\ cache_files' = cache_files \ old
    /\ cache_hist' = NoHist
    /\ UNCHANGED requests
    /\ CacheFrame

-----------------------------------------------------------------------------
(* Matcher *)

\* Rows of the Spotify DataFrame
Row(track, artist, album, url) ==
    [track_name |-> track, artist_name |-> artist, album_name |-> album,
     spotify_url |-> url]

SpotifyRows ==
    {Row(Str_abc_de, Str_Abc, "album1", "spotify1"),
     Row(Str_de, Str_empty, "album2", "spotify2")}

\* Search results the target catalog can return
Candidates ==
    {YtResult(Str_ABC_de, <<Str_abc>>, "ytalbum1", "vid1",
              [id |-> "a", suffix |-> ""]),
     YtResult(Str_xabc, <<Str_abcx, Str_zzz>>, "", "vid2", NoUrl),
     YtResult(Str_zzz, <<Str_zzz>>, "", "", [id |-> "b", suffix |-> ".png"])}

\* What ytmusic.search can do: raise, or return a list of results
SearchOutcomes ==
    {[raises |-> TRUE, results |-> <<>>]}
    \cup {[raises |-> FALSE, results |-> rs] : rs \in SeqsUpTo(Candidates, MaxResults)}

\* ', '.join(names)
RECURSIVE JoinNames(_)
JoinNames(names) ==
    IF names = <<>> THEN <<>>
    ELSE IF Len(names) = 1 THEN names[1]
    ELSE names[1] \o <<",", " ">> \o JoinNames(Tail(names))

\* f"https://music.youtube.com/watch?v={video_id}"
WatchUrl(video_id) == <<"https://music.youtube.com/watch?v=", video_id>>

\* self._calculate_match_confidence(artist, track_name, result), tabulated
\* once for the source strings and the candidates (the scorer is a function
\* of its arguments alone)
ScoreMemo ==
    {<<a, t, c, CalcMatchConfidence(a, t, c)>> :
        a \in SrcArtists, t \in SrcTitles, c \in Candidates}

MatchConfidence(artist, track_name, result) ==
    (CHOOSE e \in ScoreMemo :
        e[1] = artist /\ e[2] = track_name /\ e[3] = result)[4]

\* processed_result of search_track
Processed(artist, track_name, result) ==
    [youtube_title |-> result.title,
     youtube_artist |-> JoinNames(result.artists),
     youtube_album |-> result.album,
     youtube_url |-> WatchUrl(result.videoId),
     youtube_video_id |-> result.videoId,
     youtube_thumbnail |-> result.thumb,
     match_confidence |-> MatchConfidence(artist, track_name, result)]

\* An insertion that puts a result before the results of equal confidence
RECURSIVE InsertBeforeEqual(_, _)
InsertBeforeEqual(sorted, x) ==
    IF sorted = <<>> THEN <<x>>
    ELSE IF Head(sorted).match_confidence > x.match_confidence
         THEN <<Head(sorted)>> \o InsertBeforeEqual(Tail(sorted), x)
         ELSE <<x>> \o sorted

\* list.sort(key=match_confidence, reverse=True): stable, descending
RECURSIVE InsertByConfidence(_, _)
InsertByConfidence(sorted, x) ==
    IF sorted = <<>> THEN <<x>>
    ELSE IF Head(sorted).match_confidence >= x.match_confidence
         THEN <<Head(sorted)>> \o InsertByConfidence(Tail(sorted), x)
         ELSE <<x>> \o sorted

RECURSIVE SortByConfidence(_)
SortByConfidence(xs) ==
    IF xs = <<>> THEN <<>>
    ELSE InsertByConfidence(SortByConfidence(SubSeq(xs, 1, Len(xs) - 1)),
                            xs[Len(xs)])

\* A search_track without its try/except: the search API's exception leaves it
SearchTrackUncaught(artist, track_name, api) ==
    IF api.raises THEN [raised |-> TRUE, list |-> <<>>]
    ELSE [raised |-> FALSE,
          list |-> SortByConfidence([k \in DOMAIN api.results |->
                                        Processed(artist, track_name, api.results[k])])]

\* search_track(artist, track_name, limit) when the search API does `api`:
\* the list it returns, and whether an exception leaves it
SearchTrack(artist, track_name, api) ==
    IF api.raises THEN [raised |-> FALSE, list |-> <<>>]
    ELSE [raised |-> FALSE,
          list |-> SortByConfidence([k \in DOMAIN api.results |->
                                        Processed(artist, track_name, api.results[k])])]

\* search_track has not been called
NoSearch == [kind |-> "none", list |-> <<>>]

\* a caller asks search_track(artist, track_name)
SearchCall ==
    /\ st_ret = NoSearch
    /\ LET found == SearchTrack(st_artist, st_track, st_api)
       IN st_ret' = [kind |-> IF found.raised THEN "raised" ELSE "list",
                     list |-> found.list]
    /\ UNCHANGED <<st_artist, st_track, st_api>>
    /\ SearchFrame

\* A merge that keeps a candidate only when it scored above 0 and gives the
\* empty YouTube data otherwise
CombinedScoredOnly(row, best_match, cached_thumbnail_path) ==
    IF best_match.match_confidence > 0
    THEN [track_name |-> row.track_name,
          artist_name |-> row.artist_name,
          album_name |-> row.album_name,
          spotify_url |-> row.spotify_url,
          youtube_title |-> best_match.youtube_title,
          youtube_artist |-> best_match.youtube_artist,
          youtube_album |-> best_match.youtube_album,
          youtube_url |-> best_match.youtube_url,
          youtube_video_id |-> best_match.youtube_video_id,
          youtube_thumbnail |-> best_match.youtube_thumbnail,
          youtube_thumbnail_local |-> cached_thumbnail_path,
          match_confidence |-> best_match.match_confidence]
    ELSE [track_name |-> row.track_name,
          artist_name |-> row.artist_name,
          album_name |-> row.album_name,
          spotify_url |-> row.spotify_url,
          youtube_title |-> <<>>,
          youtube_artist |-> <<>>,
          youtube_album |-> "",
          youtube_url |-> <<>>,
          youtube_video_id |-> "",
          youtube_thumbnail |-> NoUrl,
          youtube_thumbnail_local |-> NoPath,
          match_confidence |-> 0]

\* combined_result for a row with a best match
Combined(row, best_match, cached_thumbnail_path) ==
    [track_name |-> row.track_name,
     artist_name |-> row.artist_name,
     album_name |-> row.album_name,
     spotify_url |-> row.spotify_url,
     youtube_title |-> best_match.youtube_title,
     youtube_artist |-> best_match.youtube_artist,
     youtube_album |-> best_match.youtube_album,
     youtube_url |-> best_match.youtube_url,
     youtube_video_id |-> best_match.youtube_video_id,
     youtube_thumbnail |-> best_match.youtube_thumbnail,
     youtube_thumbnail_local |-> cached_thumbnail_path,
     match_confidence |-> best_match.match_confidence]

\* combined_result for a row without YouTube results
EmptyMatch(row) ==
    [track_name |-> row.track_name,
     artist_name |-> row.artist_name,
     album_name |-> row.album_name,
     spotify_url |-> row.spotify_url,
     youtube_title |-> <<>>,
     youtube_artist |-> <<>>,
     youtube_album |-> "",
     youtube_url |-> <<>>,
     youtube_video_id |-> "",
     youtube_thumbnail |-> NoUrl,
     youtube_thumbnail_local |-> NoPath,
     match_confidence |-> 0]

OutcomeKind(api) ==
    IF api.raises THEN "raise" ELSE IF api.results = <<>> THEN "empty" ELSE "found"

\* pd.DataFrame(rows): a frame made of no dictionary has no column
Frame(rows) == [kind |-> "frame", columns |-> rows # <<>>, rows |-> rows,
                threshold |-> 0]

\* no frame yet
NoFrame == [kind |-> "none", columns |-> FALSE, rows |-> <<>>, threshold |-> 0]

\* full_results[full_results['match_confidence'] >= confidence_threshold]:
\* the column lookup raises KeyError on a frame without columns; the boolean
\* mask keeps the rows in their order, and the columns
FilterByConfidence(full_results, confidence_threshold) ==
    IF ~full_results.columns
    THEN [kind |-> "KeyError", columns |-> FALSE, rows |-> <<>>,
          threshold |-> confidence_threshold]
    ELSE LET Keep(r) == r.match_confidence >= confidence_threshold
         IN [kind |-> "frame", columns |-> TRUE,
             rows |-> SelectSeq(full_results.rows, Keep),
             threshold |-> confidence_threshold]

\* search_playlist_tracks is called with a DataFrame
MatchCall(df) ==
    /\ m_pc = "idle"
    /\ spotify_df' = df
    /\ m_pc' = "loop"
    /\ m_idx' = 0
    /\ all_results' = <<>>
    /\ m_outcomes' = <<>>
    /\ best_matches' = NoFrame
    /\ UNCHANGED cacheVars
    /\ MatchFrame

\* one iteration of `for idx, row in spotify_df.iterrows()`, the search API
\* doing `api` and the thumbnail download, if there is one, any of Responses
MatchRow(api) ==
    /\ m_pc = "loop"
    /\ m_idx < Len(spotify_df)
    /\ LET row == spotify_df[m_idx + 1]
           found == SearchTrack(row.artist_name, row.track_name, api)
           yt_results == found.list
       IN IF found.raised
          THEN \* an exception of search_track would leave the loop
               /\ m_pc' = "raised"
               /\ UNCHANGED <<m_idx, all_results, m_outcomes, cacheVars>>
          ELSE /\ m_pc' = m_pc
               /\ m_idx' = m_idx + 1
               /\ m_outcomes' = Append(m_outcomes, OutcomeKind(api))
               /\ IF yt_results # <<>>
                  THEN LET best_match == yt_results[1]
                           thumbnail_url == best_match.youtube_thumbnail
                       IN IF thumbnail_url # NoUrl
                          THEN \E resp \in Responses :
                                  LET r == GetCachedImage(thumbnail_url, resp,
                                                          cache_files)
                                  IN /\ all_results' =
                                            Append(all_results,
                                                   Combined(row, best_match, r.ret))
                                     /\ cache_files' = r.files
                                     /\ requests' = [requests EXCEPT
                                            ![thumbnail_url] = @ + r.req]
                                     /\ UNCHANGED cache_hist
                          ELSE /\ all_results' =
                                      Append(all_results,
                                             Combined(row, best_match, NoPath))
                               /\ UNCHANGED cacheVars
                  ELSE /\ all_results' = Append(all_results, EmptyMatch(row))
                       /\ UNCHANGED cacheVars
    /\ UNCHANGED <<spotify_df, best_matches>>
    /\ MatchFrame

\* return pd.DataFrame(all_results)
MatchReturn ==
    /\ m_pc = "loop"
    /\ m_idx = Len(spotify_df)
    /\ m_pc' = "returned"
    /\ UNCHANGED <<spotify_df, m_idx, all_results, m_outcomes, best_matches,
                   cacheVars>>
    /\ MatchFrame

\* get_best_matches(spotify_df, confidence_threshold), once its
\* search_playlist_tracks call has returned: the filter of its last line
GetBestMatches(confidence_threshold) ==
    /\ m_pc = "returned"
    /\ best_matches = NoFrame
    /\ best_matches' = FilterByConfidence(Frame(all_results), confidence_threshold)
    /\ UNCHANGED <<spotify_df, m_pc, m_idx, all_results, m_outcomes, cacheVars>>
    /\ MatchFrame

-----------------------------------------------------------------------------
(* OAuth session of YouTubePlaylistService *)

\* A google.oauth2 Credentials object as the service reads it: `expired`,
\* `refresh_token` (present or not) and `valid` (a token that is not expired)
Cred(expired, refresh_token) ==
    [present |-> TRUE, expired |-> expired, refresh_token |-> refresh_token]

\* None, where credentials are expected; also the missing token file
NoCredentials == [present |-> FALSE, expired |-> FALSE, refresh_token |-> FALSE]

Sessions == {Cred(e, r) : e \in BOOLEAN, r \in BOOLEAN}

Valid(c) == c.present /\ ~c.expired

\* What an operation gave its caller: `exchange` is what became of
\* fetch_token in authenticate_with_code ("none" when it was not called)
Op(op, ret, had_flow, refresh) ==
    [op |-> op, ret |-> ret, had_flow |-> had_flow, refresh |-> refresh,
     exchange |-> "none"]

\* An authenticate_with_code that does not wait for _save_credentials: it
\* answers True as soon as the code is exchanged
AuthenticateWithCodeUnsaved(exchange_ok, refresh_token, save_ok, build_ok) ==
    /\ svc = "ready"
    /\ IF ~has_flow \/ ~exchange_ok
       THEN /\ last_op' = [Op("authenticate_with_code", "False", has_flow, "none")
                              EXCEPT !.exchange = IF has_flow THEN "failed" ELSE "none"]
            /\ UNCHANGED <<token_file, credentials, youtube>>
       ELSE /\ credentials' = Cred(FALSE, refresh_token)
            /\ token_file' = IF save_ok THEN Cred(FALSE, refresh_token) ELSE token_file
            /\ youtube' = (youtube \/ build_ok)
            /\ last_op' = [Op("authenticate_with_code", "True", has_flow, "none")
                              EXCEPT !.exchange = "ok"]
    /\ UNCHANGED <<svc, has_flow>>
    /\ AuthFrame

\* An is_authenticated that only looks for a session object
IsAuthenticatedAnySession == credentials.present

\* is_authenticated()
IsAuthenticated == credentials.present /\ Valid(credentials)

\* A _load_credentials that removes the token file when the refresh fails
LoadCredentialsDeleting(refresh_ok, save_ok) ==
    IF token_file.present /\ token_file.expired /\ token_file.refresh_token
    THEN IF refresh_ok /\ save_ok
         THEN [credentials |-> Cred(FALSE, TRUE), token_file |-> Cred(FALSE, TRUE),
               refresh |-> "ok"]
         ELSE [credentials |-> NoCredentials, token_file |-> NoCredentials,
               refresh |-> IF refresh_ok THEN "save_failed" ELSE "failed"]
    ELSE [credentials |-> token_file, token_file |-> token_file, refresh |-> "none"]

\* _load_credentials(), up to the building of the client: the session it
\* leaves in memory and in the token file, and what became of the refresh
LoadCredentials(refresh_ok, save_ok) ==
    IF token_file.present /\ token_file.expired /\ token_file.refresh_token
    THEN IF refresh_ok /\ save_ok
         THEN [credentials |-> Cred(FALSE, TRUE), token_file |-> Cred(FALSE, TRUE),
               refresh |-> "ok"]
         ELSE \* except Exception: self.credentials = None
              [credentials |-> NoCredentials, token_file |-> token_file,
               refresh |-> IF refresh_ok THEN "save_failed" ELSE "failed"]
    ELSE [credentials |-> token_file, token_file |-> token_file, refresh |-> "none"]

\* YouTubePlaylistService(): __init__ and the _load_credentials it ends with
ConstructService(env_ok, refresh_ok, save_ok, build_ok) ==
    IF ~env_ok
       THEN \* ValueError: YouTube credentials not found
            /\ svc' = "none"
            /\ credentials' = NoCredentials
            /\ youtube' = FALSE
            /\ has_flow' = FALSE
            /\ last_op' = Op("construct", "ValueError", FALSE, "none")
            /\ UNCHANGED token_file
       ELSE LET l == LoadCredentials(refresh_ok, save_ok)
            IN /\ token_file' = l.token_file
               /\ has_flow' = FALSE
               /\ IF Valid(l.credentials) /\ ~build_ok
                  THEN \* build() raises out of __init__: there is no service object
                       /\ svc' = "none"
                       /\ credentials' = NoCredentials
                       /\ youtube' = FALSE
                       /\ last_op' = Op("construct", "raised", FALSE, l.refresh)
                  ELSE /\ svc' = "ready"
                       /\ credentials' = l.credentials
                       /\ youtube' = Valid(l.credentials)
                       /\ last_op' = Op("construct", "ok", FALSE, l.refresh)

\* a caller constructs the service
Construct(env_ok, refresh_ok, save_ok, build_ok) ==
    /\ ConstructService(env_ok, refresh_ok, save_ok, build_ok)
    /\ AuthFrame

\* get_auth_url()
GetAuthUrl ==
    /\ svc = "ready"
    /\ has_flow' = TRUE
    /\ last_op' = Op("get_auth_url", "url", has_flow, "none")
    /\ UNCHANGED <<token_file, svc, credentials, youtube>>
    /\ AuthFrame

\* authenticate_with_code(auth_code)
AuthenticateWithCode(exchange_ok, refresh_token, save_ok, build_ok) ==
    /\ svc = "ready"
    /\ IF ~has_flow
       THEN \* the ValueError raised in the try block is caught by its except
            /\ last_op' = Op("authenticate_with_code", "False", has_flow, "none")
            /\ UNCHANGED <<token_file, credentials, youtube>>
       ELSE IF ~exchange_ok
       THEN \* fetch_token raises: except Exception, return False
            /\ last_op' = [Op("authenticate_with_code", "False", has_flow, "none")
                              EXCEPT !.exchange = "failed"]
            /\ UNCHANGED <<token_file, credentials, youtube>>
       ELSE /\ credentials' = Cred(FALSE, refresh_token)
            /\ IF ~save_ok
               THEN /\ last_op' = [Op("authenticate_with_code", "False", has_flow,
                                      "none") EXCEPT !.exchange = "ok"]
                    /\ UNCHANGED <<token_file, youtube>>
               ELSE /\ token_file' = Cred(FALSE, refresh_token)
                    /\ IF ~build_ok
                       THEN /\ last_op' = [Op("authenticate_with_code", "False",
                                              has_flow, "none")
                                             EXCEPT !.exchange = "ok"]
                            /\ UNCHANGED youtube
                       ELSE /\ last_op' = [Op("authenticate_with_code", "True",
                                              has_flow, "none")
                                             EXCEPT !.exchange = "ok"]
                            /\ youtube' = TRUE
    /\ UNCHANGED <<svc, has_flow>>
    /\ AuthFrame

\* a caller asks is_authenticated()
IsAuthenticatedCall ==
    /\ svc = "ready"
    /\ last_op' = Op("is_authenticated", IF IsAuthenticated THEN "True" ELSE "False",
                     has_flow, "none")
    /\ UNCHANGED <<token_file, svc, credentials, youtube, has_flow>>
    /\ AuthFrame

\* time passes the expiry of the session held in memory
SessionExpires ==
    /\ svc = "ready"
    /\ Valid(credentials)
    /\ credentials' = [credentials EXCEPT !.expired = TRUE]
    /\ last_op' = Op("clock", "", has_flow, "none")
    /\ UNCHANGED <<token_file, svc, youtube, has_flow>>
    /\ AuthFrame

\* time passes the expiry of the session in the token file
StoredSessionExpires ==
    /\ Valid(token_file)
    /\ token_file' = [token_file EXCEPT !.expired = TRUE]
    /\ last_op' = Op("clock", "", has_flow, "none")
    /\ UNCHANGED <<svc, credentials, youtube, has_flow>>
    /\ AuthFrame

-----------------------------------------------------------------------------
(* Playlist creation *)

\* youtube_video_id of a row: an id, the empty string, or a missing value
VideoIds == {"vid1", "", "NaN"}
Confidences == {0, 7, 10}
Thresholds == {7, 8}

TrackRows == {[youtube_video_id |-> v, match_confidence |-> c] :
                 v \in VideoIds, c \in Confidences}

\* What executing a write request can do: succeed, raise HttpError, or raise
\* another exception (transport, credential refresh)
ExecOutcomes == {"ok", "HttpError", "other"}

\* A row filter that does not look at the confidence
IsValidTrackAnyConfidence(track, confidence_threshold) ==
    /\ track.youtube_video_id # ""
    /\ track.youtube_video_id # "NaN"

\* the row filter of create_playlist_from_tracks
IsValidTrack(track, confidence_threshold) ==
    /\ track.match_confidence >= confidence_threshold
    /\ track.youtube_video_id # ""
    /\ track.youtube_video_id # "NaN"

\* valid_tracks, as the positions of its rows in tracks_df, in order
RECURSIVE ValidFrom(_, _, _)
ValidFrom(df, confidence_threshold, k) ==
    IF k > Len(df) THEN <<>>
    ELSE (IF IsValidTrack(df[k], confidence_threshold) THEN <<k>> ELSE <<>>)
         \o ValidFrom(df, confidence_threshold, k + 1)

ValidTracks(df, confidence_threshold) == ValidFrom(df, confidence_threshold, 1)

valid_tracks == ValidTracks(tracks_df, threshold)

NoResult == [kind |-> "none"]

\* the dictionary of the two early returns
FailureResult(error, skipped) ==
    [kind |-> "result", success |-> FALSE, error |-> error,
     tracks_attempted |-> 0, tracks_added |-> 0, tracks_skipped |-> skipped]

\* A final dictionary that reports every input row as skipped
SuccessResultSkipAll(df, valid, added, failed) ==
    [kind |-> "result", success |-> TRUE, playlist_id |-> "PL1",
     tracks_attempted |-> Len(valid), tracks_added |-> added,
     tracks_failed |-> Len(failed), tracks_skipped |-> Len(df),
     failed_tracks |-> failed]

\* A final dictionary that counts every input row as attempted
SuccessResultAttemptedAll(df, valid, added, failed) ==
    [kind |-> "result", success |-> TRUE, playlist_id |-> "PL1",
     tracks_attempted |-> Len(df), tracks_added |-> added,
     tracks_failed |-> Len(failed), tracks_skipped |-> Len(df) - Len(valid),
     failed_tracks |-> failed]

\* the dictionary of the final return
SuccessResult(df, valid, added, failed) ==
    [kind |-> "result", success |-> TRUE, playlist_id |-> "PL1",
     tracks_attempted |-> Len(valid), tracks_added |-> added,
     tracks_failed |-> Len(failed), tracks_skipped |-> Len(df) - Len(valid),
     failed_tracks |-> failed]

NoPlaylist == [created |-> FALSE, items |-> <<>>]

\* A create_playlist result check that never finds the playlist missing
NotPlaylistNever(ret) == FALSE

\* `if not playlist:`
NotPlaylist(ret) == ret = "None"

\* create_playlist(title, description, privacy_status) when executing the
\* request does `out`: what the caller gets and whether a request was made
CreatePlaylist(out) ==
    IF ~IsAuthenticated
    THEN \* raise ValueError("Not authenticated...")
         [ret |-> "raised", called |-> FALSE]
    ELSE IF ~youtube
    THEN \* self.youtube is None: AttributeError, which is no HttpError
         [ret |-> "raised", called |-> FALSE]
    ELSE [ret |-> IF out = "ok" THEN "playlist"
                  ELSE IF out = "HttpError" THEN "None" ELSE "raised",
          called |-> TRUE]

\* add_video_to_playlist(playlist_id, video_id) when executing the request
\* does `out`
AddVideoToPlaylist(out) ==
    IF ~IsAuthenticated
    THEN [ret |-> "raised", called |-> FALSE]
    ELSE IF ~youtube
    THEN [ret |-> "raised", called |-> FALSE]
    ELSE [ret |-> IF out = "ok" THEN "True"
                  ELSE IF out = "HttpError" THEN "False" ELSE "raised",
          called |-> TRUE]

\* create_playlist_from_tracks is called: the authentication check, the
\* filter and the first early return
SyncCall(df, confidence_threshold) ==
    /\ s_pc = "idle"
    /\ svc = "ready"
    /\ tracks_df' = df
    /\ threshold' = confidence_threshold
    /\ IF ~IsAuthenticated
       THEN \* raise ValueError("Not authenticated...")
            /\ s_pc' = "raised"
            /\ UNCHANGED s_result
       ELSE IF Len(ValidTracks(df, confidence_threshold)) = 0
       THEN /\ s_pc' = "returned"
            /\ s_result' = FailureResult("No valid tracks found to add to playlist",
                                         Len(df))
       ELSE /\ s_pc' = "create"
            /\ UNCHANGED s_result
    /\ UNCHANGED <<s_i, playlist, create_ret, tracks_added, tracks_failed, api_calls,
                   append_outcomes, authVars>>
    /\ SyncFrame

\* self.create_playlist(...) and the second early return
SyncCreate(out) ==
    /\ s_pc = "create"
    /\ LET r == CreatePlaylist(out)
       IN /\ create_ret' = r.ret
          /\ api_calls' = IF r.called
                          THEN Append(api_calls,
                                      [op |-> "playlists.insert", index |-> 0])
                          ELSE api_calls
          /\ IF r.ret = "raised"
             THEN /\ s_pc' = "raised"
                  /\ UNCHANGED <<playlist, s_result>>
             ELSE IF NotPlaylist(r.ret)
             THEN /\ s_pc' = "returned"
                  /\ s_result' = FailureResult("Failed to create playlist",
                                               Len(tracks_df))
                  /\ UNCHANGED playlist
             ELSE /\ s_pc' = "loop"
                  /\ playlist' = [created |-> r.ret = "playlist", items |-> <<>>]
                  /\ UNCHANGED s_result
    /\ UNCHANGED <<tracks_df, threshold, s_i, tracks_added, tracks_failed,
                   append_outcomes, authVars>>
    /\ SyncFrame

\* one iteration of `for _, track in valid_tracks.iterrows()`
SyncAppend(out) ==
    /\ s_pc = "loop"
    /\ s_i < Len(valid_tracks)
    /\ LET k == valid_tracks[s_i + 1]
           video_id == tracks_df[k].youtube_video_id
           r == AddVideoToPlaylist(out)
       IN /\ append_outcomes' = Append(append_outcomes, [index |-> k, ret |-> r.ret])
          /\ api_calls' = IF r.called
                          THEN Append(api_calls,
                                      [op |-> "playlistItems.insert", index |-> k])
                          ELSE api_calls
          /\ IF r.ret = "raised"
             THEN \* the exception leaves create_playlist_from_tracks
                  /\ s_pc' = "raised"
                  /\ UNCHANGED <<s_i, playlist, tracks_added, tracks_failed>>
             ELSE IF r.ret = "True"
             THEN /\ playlist' = [playlist EXCEPT !.items = Append(@, k)]
                  /\ tracks_added' = tracks_added + 1
                  /\ s_i' = s_i + 1
                  /\ UNCHANGED <<s_pc, tracks_failed>>
             ELSE /\ tracks_failed' = Append(tracks_failed,
                                             [index |-> k, video_id |-> video_id])
                  /\ s_i' = s_i + 1
                  /\ UNCHANGED <<s_pc, playlist, tracks_added>>
    /\ UNCHANGED <<tracks_df, threshold, create_ret, s_result, authVars>>
    /\ SyncFrame

\* the final return of create_playlist_from_tracks
SyncReturn ==
    /\ s_pc = "loop"
    /\ s_i = Len(valid_tracks)
    /\ s_pc' = "returned"
    /\ s_result' = SuccessResult(tracks_df, valid_tracks, tracks_added, tracks_failed)
    /\ UNCHANGED <<tracks_df, threshold, s_i, playlist, create_ret, tracks_added,
                   tracks_failed, api_calls, append_outcomes, authVars>>
    /\ SyncFrame

\* the access token runs out while create_playlist_from_tracks is at work
SyncSessionExpires ==
    /\ s_pc \in {"idle", "create", "loop"}
    /\ Valid(credentials)
    /\ credentials' = [credentials EXCEPT !.expired = TRUE]
    /\ UNCHANGED <<token_file, svc, youtube, has_flow, last_op, syncVars>>
    /\ SyncFrame

-----------------------------------------------------------------------------
(* Playlist reference *)

\* the literal text of the pattern, before its group
PatternPrefix ==
    <<"h", "t", "t", "p", "s", ":", "/", "/", "o", "p", "e", "n", ".", "s",
      "p", "o", "t", "i", "f", "y", ".", "c", "o", "m", "/", "p", "l", "a",
      "y", "l", "i", "s", "t", "/">>

\* the same address with another scheme
HttpPrefix ==
    <<"h", "t", "t", "p", ":", "/", "/", "o", "p", "e", "n", ".", "s", "p",
      "o", "t", "i", "f", "y", ".", "c", "o", "m", "/", "p", "l", "a", "y",
      "l", "i", "s", "t", "/">>

\* [a-zA-Z0-9]
Alnum ==
    {"a", "b", "c", "d", "e", "f", "g", "h", "i", "j", "k", "l", "m", "n",
      "o", "p", "q", "r", "s", "t", "u", "v", "w", "x", "y", "z", "A", "B",
      "C", "D", "E", "F", "G", "H", "I", "J", "K", "L", "M", "N", "O", "P",
      "Q", "R", "S", "T", "U", "V", "W", "X", "Y", "Z", "0", "1", "2", "3",
      "4", "5", "6", "7", "8", "9"}

\* The pieces the URLs given to extract_playlist_id are made of
UrlParts == {PatternPrefix, HttpPrefix, <<"a">>, <<"Z">>, <<"7">>, <<"_">>, <<"?">>}

\* the string made of the pieces, in order
RECURSIVE Flatten(_)
Flatten(parts) == IF parts = <<>> THEN <<>> ELSE Head(parts) \o Flatten(Tail(parts))

PlaylistUrls == {Flatten(parts) : parts \in SeqsUpTo(UrlParts, MaxUrlParts)}

\* the pattern matches at position i: its literal text, then one character of
\* the class at least
MatchesAt(url, i) ==
    /\ i + Len(PatternPrefix) <= Len(url)
    /\ SubSeq(url, i, i + Len(PatternPrefix) - 1) = PatternPrefix
    /\ url[i + Len(PatternPrefix)] \in Alnum

\* ([a-zA-Z0-9]+) is greedy: the last position of the run that starts at j
RECURSIVE RunEnd(_, _)
RunEnd(url, j) ==
    IF j < Len(url) /\ url[j + 1] \in Alnum THEN RunEnd(url, j + 1) ELSE j

NoId == [kind |-> "none", id |-> <<>>]

\* An extract_playlist_id that uses re.match: the pattern must match at the
\* start of the string
ExtractPlaylistIdAnchored(url) ==
    IF MatchesAt(url, 1)
    THEN [kind |-> "id",
          id |-> SubSeq(url, 1 + Len(PatternPrefix), RunEnd(url, 1 + Len(PatternPrefix)))]
    ELSE [kind |-> "ValueError", id |-> <<>>]

\* extract_playlist_id(playlist_url): re.search takes the leftmost position at
\* which the pattern matches; match.group(1) is the run of the class there
ExtractPlaylistId(url) ==
    IF \E i \in 1..Len(url) : MatchesAt(url, i)
    THEN LET i == CHOOSE k \in 1..Len(url) :
                      /\ MatchesAt(url, k)
                      /\ \A h \in 1..(k - 1) : ~MatchesAt(url, h)
             first == i + Len(PatternPrefix)
         IN [kind |-> "id", id |-> SubSeq(url, first, RunEnd(url, first))]
    ELSE \* raise ValueError(f"Invalid Spotify playlist URL: ...")
         [kind |-> "ValueError", id |-> <<>>]

\* a caller asks extract_playlist_id(playlist_url)
ExtractCall ==
    /\ ex_ret = NoId
    /\ ex_ret' = ExtractPlaylistId(playlist_url)
    /\ UNCHANGED playlist_url
    /\ ExtractFrame

-----------------------------------------------------------------------------
(* Playlist extraction *)

\* limit = 100
PageLimit == 100

\* An item of a page: item['track'] is None, or a track with its name, its
\* artists, its album and its URL
NullItem == [present |-> FALSE, name |-> <<>>, artists |-> <<>>, album |-> "",
             url |-> ""]

PageItems ==
    {NullItem,
     [present |-> TRUE, name |-> Str_abc, artists |-> <<Str_Abc>>,
      album |-> "album1", url |-> "spotify1"],
     [present |-> TRUE, name |-> Str_de, artists |-> <<Str_abc, Str_zzz>>,
      album |-> "album2", url |-> "spotify2"]}

\* What sp.playlist_tracks can do: raise, or return a page with its items and
\* whether results['next'] is set
PageResponses ==
    {[kind |-> "error", items |-> <<>>, next |-> FALSE]}
    \cup {[kind |-> "page", items |-> its, next |-> n] :
             its \in SeqsUpTo(PageItems, MaxPageItems), n \in BOOLEAN}

\* the dictionary appended for a track
TrackRow(track) ==
    Row(track.name, JoinNames(track.artists), track.album, track.url)

\* A loop over the items that stops at the first item without track
RECURSIVE PageRowsUntilNull(_)
PageRowsUntilNull(items) ==
    IF items = <<>> THEN <<>>
    ELSE IF ~Head(items).present THEN <<>>
    ELSE <<TrackRow(Head(items))>> \o PageRowsUntilNull(Tail(items))

\* for item in results['items']: the rows appended for one page
RECURSIVE PageRows(_)
PageRows(items) ==
    IF items = <<>> THEN <<>>
    ELSE IF ~Head(items).present
         THEN \* if track is None: continue
              PageRows(Tail(items))
         ELSE <<TrackRow(Head(items))>> \o PageRows(Tail(items))

\* get_playlist_tracks(playlist_url) is called; extract_playlist_id raises
\* ValueError on a URL that is no playlist URL
FetchCall(url_ok) ==
    /\ f_pc = "idle"
    /\ f_pc' = IF url_ok THEN "loop" ELSE "raised"
    /\ offset' = 0
    /\ tracks_data' = <<>>
    /\ f_requests' = <<>>
    /\ f_pages' = <<>>
    /\ FetchFrame

\* A loop that asks again for the page whose request raised
FetchPageRetry(resp) ==
    /\ f_pc = "loop"
    /\ Len(f_requests) < MaxPages
    /\ (Len(f_requests) + 1 = MaxPages) => (resp.kind = "error" \/ ~resp.next)
    /\ f_requests' = Append(f_requests, [offset |-> offset, limit |-> PageLimit])
    /\ f_pages' = Append(f_pages, resp)
    /\ IF resp.kind = "error"
       THEN UNCHANGED <<f_pc, offset, tracks_data>>
       ELSE /\ tracks_data' = tracks_data \o PageRows(resp.items)
            /\ IF ~resp.next
               THEN f_pc' = "returned" /\ UNCHANGED offset
               ELSE f_pc' = f_pc /\ offset' = offset + PageLimit
    /\ FetchFrame

\* one iteration of `while True`: the request, the items of the page, and
\* the test of results['next'].  The API answers the last request the model
\* lets it answer with an error or with a page that has no next page.
FetchPage(resp) ==
    /\ f_pc = "loop"
    /\ Len(f_requests) < MaxPages
    /\ (Len(f_requests) + 1 = MaxPages) => (resp.kind = "error" \/ ~resp.next)
    /\ f_requests' = Append(f_requests, [offset |-> offset, limit |-> PageLimit])
    /\ f_pages' = Append(f_pages, resp)
    /\ IF resp.kind = "error"
       THEN \* the exception of sp.playlist_tracks leaves get_playlist_tracks
            /\ f_pc' = "raised"
            /\ UNCHANGED <<offset, tracks_data>>
       ELSE /\ tracks_data' = tracks_data \o PageRows(resp.items)
            /\ IF ~resp.next
               THEN \* break; return pd.DataFrame(tracks_data)
                    f_pc' = "returned" /\ UNCHANGED offset
               ELSE f_pc' = f_pc /\ offset' = offset + PageLimit
    /\ FetchFrame

-----------------------------------------------------------------------------
(* Two callers of get_cached_image on one cache directory.  The method takes
   no lock; its steps are the look into the cache, the request, the opening
   of the cache file and the writing of the body. *)

Callers == {1, 2}

\* get_cached_image(url) is entered with a non-empty url
RaceStart(c, url) ==
    /\ r_pc[c] = "idle"
    /\ r_pc' = [r_pc EXCEPT ![c] = "probe"]
    /\ r_url' = [r_url EXCEPT ![c] = url]
    /\ UNCHANGED <<r_ext, r_ret, r_probe, r_writes, cacheVars>>
    /\ RaceFrame

\* for ext in ['jpg', 'png', 'webp']: if cache_path.exists(): return
RaceProbe(c) ==
    /\ r_pc[c] = "probe"
    /\ IF \E k \in 1..3 : Exists(cache_files, r_url[c], Extensions[k])
       THEN LET k == CHOOSE j \in 1..3 :
                      /\ Exists(cache_files, r_url[c], Extensions[j])
                      /\ \A h \in 1..(j - 1) :
                            ~Exists(cache_files, r_url[c], Extensions[h])
            IN /\ r_pc' = [r_pc EXCEPT ![c] = "done"]
               /\ r_ret' = [r_ret EXCEPT ![c] = CachePath(r_url[c], Extensions[k])]
               /\ r_probe' = [r_probe EXCEPT ![c] = "hit"]
       ELSE /\ r_pc' = [r_pc EXCEPT ![c] = "get"]
            /\ r_probe' = [r_probe EXCEPT ![c] = "miss"]
            /\ UNCHANGED r_ret
    /\ UNCHANGED <<r_url, r_ext, r_writes, cacheVars>>
    /\ RaceFrame

\* A download that looks into the cache once more before the request and
\* returns the file another caller has written in the meantime
RaceGetRecheck(c, resp) ==
    /\ r_pc[c] = "get"
    /\ resp.kind # "stream"
    /\ IF \E k \in 1..3 : Exists(cache_files, r_url[c], Extensions[k])
       THEN LET k == CHOOSE j \in 1..3 :
                      /\ Exists(cache_files, r_url[c], Extensions[j])
                      /\ \A h \in 1..(j - 1) :
                            ~Exists(cache_files, r_url[c], Extensions[h])
            IN /\ r_pc' = [r_pc EXCEPT ![c] = "done"]
               /\ r_ret' = [r_ret EXCEPT ![c] = CachePath(r_url[c], Extensions[k])]
               /\ UNCHANGED <<r_ext, requests>>
       ELSE /\ requests' = [requests EXCEPT ![r_url[c]] = @ + 1]
            /\ IF resp.kind \in {"transport", "status"}
               THEN /\ r_pc' = [r_pc EXCEPT ![c] = "done"]
                    /\ r_ret' = [r_ret EXCEPT ![c] = NoPath]
                    /\ UNCHANGED r_ext
               ELSE /\ r_pc' = [r_pc EXCEPT ![c] = "open"]
                    /\ r_ext' = [r_ext EXCEPT ![c] = DetectImageFormat(r_url[c], resp.ct)]
                    /\ UNCHANGED r_ret
    /\ UNCHANGED <<r_url, r_probe, r_writes, cache_files, cache_hist>>
    /\ RaceFrame

\* response = self.session.get(url, ...); response.raise_for_status();
\* extension = self._detect_image_format(url, content_type)
RaceGet(c, resp) ==
    /\ r_pc[c] = "get"
    /\ resp.kind # "stream"
    /\ requests' = [requests EXCEPT ![r_url[c]] = @ + 1]
    /\ IF resp.kind \in {"transport", "status"}
       THEN \* except Exception: return None
            /\ r_pc' = [r_pc EXCEPT ![c] = "done"]
            /\ r_ret' = [r_ret EXCEPT ![c] = NoPath]
            /\ UNCHANGED r_ext
       ELSE /\ r_pc' = [r_pc EXCEPT ![c] = "open"]
            /\ r_ext' = [r_ext EXCEPT ![c] = DetectImageFormat(r_url[c], resp.ct)]
            /\ UNCHANGED r_ret
    /\ UNCHANGED <<r_url, r_probe, r_writes, cache_files, cache_hist>>
    /\ RaceFrame

\* with open(cache_path, 'wb') as f: the file is created, or emptied when
\* it is there
RaceOpen(c) ==
    /\ r_pc[c] = "open"
    /\ LET rest == {f \in cache_files : ~(f.url = r_url[c] /\ f.ext = r_ext[c])}
       IN cache_files' = rest \cup {[url |-> r_url[c], ext |-> r_ext[c],
                                     complete |-> FALSE]}
    /\ r_writes' = Append(r_writes, [caller |-> c,
                                     path |-> CachePath(r_url[c], r_ext[c])])
    /\ r_pc' = [r_pc EXCEPT ![c] = "stream"]
    /\ UNCHANGED <<r_url, r_ext, r_ret, r_probe, requests, cache_hist>>
    /\ RaceFrame

\* for chunk in response.iter_content(...): f.write(chunk); return the path,
\* or None when reading the body raised
RaceStream(c, ok) ==
    /\ r_pc[c] = "stream"
    /\ IF ok
       THEN /\ LET rest == {f \in cache_files :
                              ~(f.url = r_url[c] /\ f.ext = r_ext[c])}
               IN cache_files' = rest \cup {[url |-> r_url[c], ext |-> r_ext[c],
                                             complete |-> TRUE]}
            /\ r_ret' = [r_ret EXCEPT ![c] = CachePath(r_url[c], r_ext[c])]
       ELSE /\ r_ret' = [r_ret EXCEPT ![c] = NoPath]
            /\ UNCHANGED cache_files
    /\ r_pc' = [r_pc EXCEPT ![c] = "done"]
    /\ UNCHANGED <<r_url, r_ext, r_probe, r_writes, requests, cache_hist>>
    /\ RaceFrame

-----------------------------------------------------------------------------
(* Front end: the Create-playlist button of display_export_tab and the runs
   of the script that follow it.  A run that finds the flag set calls
   create_youtube_playlist_streamlit, which constructs a service of its own;
   svc = "none" between the runs. *)

\* the rows of the frame the button stores: one that passes the filter of
\* create_playlist_from_tracks with every threshold, one that does not
FrontRows == {[youtube_video_id |-> "vid1", match_confidence |-> 10],
              [youtube_video_id |-> "vid1", match_confidence |-> 0]}

\* st.session_state.playlist_creation_data = None
NoCreationData == [set |-> FALSE, tracks_df |-> <<>>, confidence_threshold |-> 0]

\* the service object of a run is gone when the run ends
ServiceDropped ==
    /\ svc' = "none"
    /\ credentials' = NoCredentials
    /\ youtube' = FALSE
    /\ has_flow' = FALSE
    /\ last_op' = Op("none", "", FALSE, "none")
    /\ UNCHANGED token_file

\* the state of create_playlist_from_tracks is gone when the run ends
SyncDropped ==
    /\ tracks_df' = <<>>
    /\ threshold' = 7
    /\ s_pc' = "idle"
    /\ s_i' = 0
    /\ playlist' = NoPlaylist
    /\ create_ret' = "none"
    /\ tracks_added' = 0
    /\ tracks_failed' = <<>>
    /\ api_calls' = <<>>
    /\ append_outcomes' = <<>>
    /\ s_result' = NoResult

\* if st.button(..., disabled=button_disabled): the flag and the data are
\* set, st.rerun()
FrontPress(df, confidence_threshold) ==
    /\ ~fe_pressed
    /\ ~pending_playlist_creation
    /\ pending_playlist_creation' = TRUE
    /\ playlist_creation_data' = [set |-> TRUE, tracks_df |-> df,
                                  confidence_threshold |-> confidence_threshold]
    /\ fe_pressed' = TRUE
    /\ UNCHANGED <<fe_playlists, authVars, syncVars>>
    /\ FrontFrame

\* A run of the script with the flag set reaches
\* create_youtube_playlist_streamlit: service = YouTubePlaylistService().
\* ValueError gives a failure dictionary, and the flag is cleared; another
\* exception of __init__ ends the run with the flag as it is.
FrontEnter(env_ok, refresh_ok, save_ok, build_ok) ==
    /\ pending_playlist_creation
    /\ playlist_creation_data.set
    /\ svc = "none"
    /\ last_op.op = "none"
    /\ s_pc = "idle"
    /\ fe_playlists < MaxPlaylists
    /\ ConstructService(env_ok, refresh_ok, save_ok, build_ok)
    /\ IF ~env_ok
       THEN /\ pending_playlist_creation' = FALSE
            /\ playlist_creation_data' = NoCreationData
       ELSE UNCHANGED <<pending_playlist_creation, playlist_creation_data>>
    /\ UNCHANGED <<fe_pressed, fe_playlists, syncVars>>
    /\ FrontFrame

\* the script ends after an __init__ that raised; the next run starts anew
FrontAbandon ==
    /\ svc = "none"
    /\ last_op.op = "construct"
    /\ ServiceDropped
    /\ UNCHANGED <<frontVars, syncVars>>
    /\ FrontFrame

\* if not service.is_authenticated(): auth_url = service.get_auth_url()
FrontGetAuthUrl ==
    /\ pending_playlist_creation
    /\ last_op.op = "construct"
    /\ s_pc = "idle"
    /\ ~IsAuthenticated
    /\ GetAuthUrl

\* no code in the text input: the dictionary with 'Authentication
\* required', which leaves the flag set
FrontNoCode ==
    /\ svc = "ready"
    /\ last_op.op = "get_auth_url"
    /\ ServiceDropped
    /\ UNCHANGED <<frontVars, syncVars>>
    /\ FrontFrame

\* if auth_code: service.authenticate_with_code(auth_code)
FrontAuthenticate(exchange_ok, refresh_token, save_ok, build_ok) ==
    /\ last_op.op = "get_auth_url"
    /\ AuthenticateWithCode(exchange_ok, refresh_token, save_ok, build_ok)

\* True: st.rerun(), the flag stays; False: the dictionary with
\* 'Authentication failed', for which the flag is cleared
FrontAuthDone ==
    /\ svc = "ready"
    /\ last_op.op = "authenticate_with_code"
    /\ IF last_op.ret = "True"
       THEN UNCHANGED <<pending_playlist_creation, playlist_creation_data>>
       ELSE /\ pending_playlist_creation' = FALSE
            /\ playlist_creation_data' = NoCreationData
    /\ ServiceDropped
    /\ UNCHANGED <<fe_pressed, fe_playlists, syncVars>>
    /\ FrontFrame

\* the service is authenticated: service.create_playlist_from_tracks(...)
FrontCreate ==
    /\ pending_playlist_creation
    /\ last_op.op = "construct"
    /\ IsAuthenticated
    /\ SyncCall(playlist_creation_data.tracks_df,
                playlist_creation_data.confidence_threshold)

\* create_playlist_from_tracks has returned its dictionary, and the flag is
\* cleared (no dictionary of it has 'Authentication required'); or an
\* exception left it, and the script, with the flag as it is
FrontEnd ==
    /\ s_pc \in {"returned", "raised"}
    /\ IF s_pc = "returned"
          /\ (s_result.success \/ s_result.error # "Authentication required")
       THEN /\ pending_playlist_creation' = FALSE
            /\ playlist_creation_data' = NoCreationData
       ELSE UNCHANGED <<pending_playlist_creation, playlist_creation_data>>
    /\ fe_playlists' = fe_playlists + (IF playlist.created THEN 1 ELSE 0)
    /\ UNCHANGED fe_pressed
    /\ ServiceDropped
    /\ SyncDropped
    /\ FrontFrame

-----------------------------------------------------------------------------
(* Specifications *)

\* the scorer is applied to its arguments
ScoreCall ==
    /\ Len(sc_score) < 2
    /\ sc_score' = Append(sc_score, CalcMatchConfidence(sc_artist, sc_track, sc_result))
    /\ UNCHANGED <<sc_artist, sc_track, sc_result>>
    /\ ScoreFrame

IdleScore ==
    /\ sc_artist = <<>>
    /\ sc_track = <<>>
    /\ sc_result = YtResult(<<>>, <<>>, "", "", NoUrl)
    /\ sc_score = <<>>

IdleCache ==
    /\ cache_files = {}
    /\ requests = NoRequests
    /\ cache_hist = NoHist

IdleMatch ==
    /\ spotify_df = <<>>
    /\ m_pc = "idle"
    /\ m_idx = 0
    /\ all_results = <<>>
    /\ m_outcomes = <<>>
    /\ best_matches = NoFrame

IdleSearch ==
    /\ st_artist = <<>>
    /\ st_track = <<>>
    /\ st_api = [raises |-> FALSE, results |-> <<>>]
    /\ st_ret = NoSearch

IdleAuth ==
    /\ token_file = NoCredentials
    /\ svc = "none"
    /\ credentials = NoCredentials
    /\ youtube = FALSE
    /\ has_flow = FALSE
    /\ last_op = Op("none", "", FALSE, "none")

IdleExtract ==
    /\ playlist_url = <<>>
    /\ ex_ret = NoId


IdleFetch ==
    /\ f_pc = "idle"
    /\ offset = 0
    /\ tracks_data = <<>>
    /\ f_requests = <<>>
    /\ f_pages = <<>>

IdleRace ==
    /\ r_pc = [c \in Callers |-> "idle"]
    /\ r_url = [c \in Callers |-> NoUrl]
    /\ r_ext = [c \in Callers |-> ""]
    /\ r_ret = [c \in Callers |-> NoPath]
    /\ r_probe = [c \in Callers |-> "none"]
    /\ r_writes = <<>>

IdleFront ==
    /\ pending_playlist_creation = FALSE
    /\ playlist_creation_data = [set |-> FALSE, tracks_df |-> <<>>,
                                 confidence_threshold |-> 0]
    /\ fe_pressed = FALSE
    /\ fe_playlists = 0

IdleSync ==
    /\ tracks_df = <<>>
    /\ threshold = 7
    /\ s_pc = "idle"
    /\ s_i = 0
    /\ playlist = NoPlaylist
    /\ create_ret = "none"
    /\ tracks_added = 0
    /\ tracks_failed = <<>>
    /\ api_calls = <<>>
    /\ append_outcomes = <<>>
    /\ s_result = NoResult

\* ---- the scorer on every (source, candidate) pair of the chosen strings
InitScore ==
    /\ sc_artist \in SrcArtists
    /\ sc_track \in SrcTitles
    /\ sc_result \in {YtResult(t, a, "", "vid1", NoUrl) :
                         t \in CandTitles, a \in SeqsUpTo(CandArtistNames, MaxArtists)}
    /\ sc_score = <<>>
    /\ IdleCache /\ IdleMatch /\ IdleAuth /\ IdleSync /\ IdleExtract
    /\ IdleSearch
    /\ IdleFetch /\ IdleRace /\ IdleFront

NextScore == ScoreCall

SpecScore == InitScore /\ [][NextScore]_vars

\* ---- the image cache under sequential callers
InitCache ==
    /\ IdleScore /\ IdleCache /\ IdleMatch /\ IdleAuth /\ IdleSync /\ IdleExtract
    /\ IdleSearch
    /\ IdleFetch /\ IdleRace /\ IdleFront

NextCache ==
    \/ \E url \in Urls \cup {NoUrl}, resp \in Responses : CacheCall(url, resp)
    \/ \E old \in SUBSET cache_files : ClearCache(old)

SpecCache == InitCache /\ [][NextCache]_vars

\* ---- the matcher, with the cache it fills
InitMatch ==
    /\ IdleScore /\ IdleCache /\ IdleMatch /\ IdleAuth /\ IdleSync /\ IdleExtract
    /\ IdleSearch
    /\ IdleFetch /\ IdleRace /\ IdleFront

NextMatch ==
    \/ m_pc = "idle" /\ \E df \in SeqsUpTo(SpotifyRows, MaxRows) : MatchCall(df)
    \/ m_pc = "loop" /\ \E api \in SearchOutcomes : MatchRow(api)
    \/ MatchReturn
    \/ \E thr \in Thresholds : GetBestMatches(thr)

SpecMatch == InitMatch /\ [][NextMatch]_vars

\* ---- the OAuth session, over any token file found at start
InitAuth ==
    /\ token_file \in {NoCredentials} \cup Sessions
    /\ svc = "none"
    /\ credentials = NoCredentials
    /\ youtube = FALSE
    /\ has_flow = FALSE
    /\ last_op = Op("none", "", FALSE, "none")
    /\ IdleScore /\ IdleCache /\ IdleMatch /\ IdleSync /\ IdleExtract
    /\ IdleSearch
    /\ IdleFetch /\ IdleRace /\ IdleFront

NextAuth ==
    \/ \E env_ok, refresh_ok, save_ok, build_ok \in BOOLEAN :
           Construct(env_ok, refresh_ok, save_ok, build_ok)
    \/ GetAuthUrl
    \/ \E exchange_ok, refresh_token, save_ok, build_ok \in BOOLEAN :
           AuthenticateWithCode(exchange_ok, refresh_token, save_ok, build_ok)
    \/ IsAuthenticatedCall
    \/ SessionExpires
    \/ StoredSessionExpires

SpecAuth == InitAuth /\ [][NextAuth]_vars

\* ---- playlist creation on a constructed service
\* States in which SpecAuth leaves a constructed service: no session; a valid
\* session with the client built; a valid session without the client (the
\* code exchange succeeded and _save_credentials raised); an expired session
\* without refresh token, as loaded from the token file
SyncServiceStates ==
    {[credentials |-> NoCredentials, youtube |-> FALSE],
     [credentials |-> Cred(FALSE, TRUE), youtube |-> TRUE],
     [credentials |-> Cred(FALSE, TRUE), youtube |-> FALSE],
     [credentials |-> Cred(TRUE, FALSE), youtube |-> FALSE]}

InitSync ==
    /\ \E st \in SyncServiceStates :
          /\ credentials = st.credentials
          /\ youtube = st.youtube
    /\ token_file = NoCredentials
    /\ svc = "ready"
    /\ has_flow = FALSE
    /\ last_op = Op("construct", "ok", FALSE, "none")
    /\ IdleScore /\ IdleCache /\ IdleMatch /\ IdleSync /\ IdleExtract
    /\ IdleSearch
    /\ IdleFetch /\ IdleRace /\ IdleFront

NextSync ==
    \/ /\ s_pc = "idle"
       /\ \E df \in SeqsUpTo(TrackRows, MaxTracks), thr \in Thresholds :
              SyncCall(df, thr)
    \/ \E out \in ExecOutcomes : SyncCreate(out)
    \/ \E out \in ExecOutcomes : SyncAppend(out)
    \/ SyncReturn
    \/ SyncSessionExpires

SpecSync == InitSync /\ [][NextSync]_vars

\* ---- extract_playlist_id on every URL made of the pieces
InitExtract ==
    /\ playlist_url \in PlaylistUrls
    /\ ex_ret = NoId
    /\ IdleScore /\ IdleCache /\ IdleMatch /\ IdleAuth /\ IdleSync
    /\ IdleSearch
    /\ IdleFetch /\ IdleRace /\ IdleFront

NextExtract == ExtractCall

SpecExtract == InitExtract /\ [][NextExtract]_vars

\* ---- search_track on every source pair and every outcome of the search API
InitSearch ==
    /\ st_artist \in SrcArtists
    /\ st_track \in SrcTitles
    /\ st_api \in SearchOutcomes
    /\ st_ret = NoSearch
    /\ IdleScore /\ IdleCache /\ IdleMatch /\ IdleAuth /\ IdleSync /\ IdleExtract
    /\ IdleFetch /\ IdleRace /\ IdleFront

NextSearch == SearchCall

SpecSearch == InitSearch /\ [][NextSearch]_vars

\* ---- get_playlist_tracks over every sequence of answers of the API
InitFetch ==
    /\ IdleScore /\ IdleCache /\ IdleMatch /\ IdleAuth /\ IdleSync /\ IdleExtract
    /\ IdleSearch /\ IdleFetch /\ IdleRace /\ IdleFront

NextFetch ==
    \/ \E url_ok \in BOOLEAN : FetchCall(url_ok)
    \/ \E resp \in PageResponses : FetchPage(resp)

SpecFetch == InitFetch /\ [][NextFetch]_vars

\* ---- two concurrent callers of get_cached_image
InitRace ==
    /\ IdleScore /\ IdleCache /\ IdleMatch /\ IdleAuth /\ IdleSync /\ IdleExtract
    /\ IdleSearch /\ IdleFetch /\ IdleRace /\ IdleFront

NextRace ==
    \/ \E c \in Callers, url \in Urls : RaceStart(c, url)
    \/ \E c \in Callers : RaceProbe(c)
    \/ \E c \in Callers, resp \in Responses : RaceGet(c, resp)
    \/ \E c \in Callers : RaceOpen(c)
    \/ \E c \in Callers, ok \in BOOLEAN : RaceStream(c, ok)

SpecRace == InitRace /\ [][NextRace]_vars

\* ---- the front end after one press of the Create-playlist button
InitFront ==
    /\ token_file \in {NoCredentials} \cup Sessions
    /\ svc = "none"
    /\ credentials = NoCredentials
    /\ youtube = FALSE
    /\ has_flow = FALSE
    /\ last_op = Op("none", "", FALSE, "none")
    /\ IdleScore /\ IdleCache /\ IdleMatch /\ IdleSync /\ IdleExtract
    /\ IdleSearch /\ IdleFetch /\ IdleRace /\ IdleFront

NextFront ==
    \/ \E df \in SeqsUpTo(FrontRows, MaxRows), thr \in Thresholds :
           FrontPress(df, thr)
    \/ \E env_ok, refresh_ok, save_ok, build_ok \in BOOLEAN :
           FrontEnter(env_ok, refresh_ok, save_ok, build_ok)
    \/ FrontAbandon
    \/ FrontGetAuthUrl
    \/ FrontNoCode
    \/ \E exchange_ok, refresh_token, save_ok, build_ok \in BOOLEAN :
           FrontAuthenticate(exchange_ok, refresh_token, save_ok, build_ok)
    \/ FrontAuthDone
    \/ FrontCreate
    \/ \E out \in ExecOutcomes : SyncCreate(out)
    \/ \E out \in ExecOutcomes : SyncAppend(out)
    \/ SyncReturn
    \/ FrontEnd

SpecFront == InitFront /\ [][NextFront]_vars

\* ---- everything
Init == InitAuth

Next == NextAuth

Spec == SpecAuth

-----------------------------------------------------------------------------
(* Properties *)

SourceFields(r) == <<r.track_name, r.artist_name, r.album_name, r.spotify_url>>

C2_EveryEligibleAppendedOnce ==
    (s_pc \in {"returned", "raised"} /\ playlist.created)
        => [k \in 1..Len(append_outcomes) |-> append_outcomes[k].index] = valid_tracks

C5_NoEligibleTracks ==
    (s_pc \in {"returned", "raised"} /\ valid_tracks = <<>>)
        => /\ s_pc = "returned"
           /\ s_result.success = FALSE
           /\ s_result.tracks_attempted = 0
           /\ s_result.tracks_added = 0
           /\ api_calls = <<>>

\* C6 (SpecSync): when the playlist was created and every
\* add_video_to_playlist call failed, create_playlist_from_tracks returns
\* success=True with the playlist id, tracks_added=0 and as many failed
\* tracks as tracks attempted, which are all the valid tracks.
C6_AllAppendsFail ==
    (/\ s_pc \in {"returned", "raised"}
     /\ playlist.created
     /\ \A k \in 1..Len(append_outcomes) : append_outcomes[k].ret # "True")
        => /\ s_pc = "returned"
           /\ s_result.success = TRUE
           /\ s_result.playlist_id = "PL1"
           /\ s_result.tracks_added = 0
           /\ s_result.tracks_attempted = Len(valid_tracks)
           /\ Len(s_result.failed_tracks) = s_result.tracks_attempted

\* C7 (SpecSync): when create_playlist has returned None, the call has
\* returned success=False with tracks_attempted=0 and add_video_to_playlist
\* was never called.
C7_CreationFailure ==
    create_ret = "None"
        => /\ s_pc = "returned"
           /\ s_result.success = FALSE
           /\ s_result.tracks_attempted = 0
           /\ append_outcomes = <<>>
           /\ \A k \in 1..Len(api_calls) : api_calls[k].op # "playlistItems.insert"

\* create_playlist returned None with two valid tracks waiting
C7_Witness ==
    /\ create_ret = "None"
    /\ Len(valid_tracks) >= 2

\* the rows with confidence >= threshold and a video id
Eligible ==
    {k \in 1..Len(tracks_df) :
        /\ tracks_df[k].match_confidence >= threshold
        /\ tracks_df[k].youtube_video_id \notin {"", "NaN"}}

\* C8 as claimed (SpecSync): every returned dictionary has tracks_skipped =
\* number of input rows - number of eligible rows.
C8_SkippedIsTotalMinusEligible ==
    s_result.kind = "result"
        => s_result.tracks_skipped = Len(tracks_df) - Cardinality(Eligible)

\* C8 as amended (SpecSync): a dictionary with success=True has
\* tracks_skipped = input rows - eligible rows; a dictionary with
\* success=False (no eligible row, or creation failed) has tracks_skipped =
\* input rows, which is input rows - eligible rows only when no row is eligible.
C8_SkippedCount ==
    s_result.kind = "result"
        => /\ s_result.success
                => s_result.tracks_skipped = Len(tracks_df) - Cardinality(Eligible)
           /\ ~s_result.success => s_result.tracks_skipped = Len(tracks_df)
           /\ (~s_result.success /\ create_ret = "none") => Eligible = {}

\* a success that skipped one row and attempted another
C8_Witness ==
    /\ s_result.kind = "result"
    /\ s_result.success
    /\ s_result.tracks_skipped >= 1
    /\ Cardinality(Eligible) >= 1

\* C9 (SpecAuth): authenticate_with_code on a service whose get_auth_url was
\* never called raises the sequencing error to its caller.
C9_NoPendingFlowRaises ==
    (last_op.op = "authenticate_with_code" /\ ~last_op.had_flow)
        => last_op.ret = "ValueError"

\* C10 (SpecAuth): is_authenticated() answers True exactly when a session is
\* held and it is not expired, and changes nothing of the service or the
\* token file; a load whose refresh failed leaves no session, so that
\* is_authenticated() is False; a step that turns the stored session from
\* expired to valid is a load or a code exchange.
C10_IsReady ==
    [][/\ last_op'.op = "is_authenticated"
          => /\ (last_op'.ret = "True") <=> (credentials.present /\ ~credentials.expired)
             /\ last_op'.ret \in {"True", "False"}
             /\ UNCHANGED <<token_file, svc, credentials, youtube, has_flow>>
       /\ (last_op'.op = "construct" /\ last_op'.refresh \in {"failed", "save_failed"})
          => /\ ~credentials'.present
             /\ ~IsAuthenticated'
       /\ (token_file.present /\ token_file.expired /\ Valid(token_file'))
          => last_op'.op \in {"construct", "authenticate_with_code"}
      ]_vars

\* is_authenticated() answered False on a service whose load found an expired
\* session with a refresh token and discarded it
C10_Witness ==
    /\ last_op.op = "is_authenticated"
    /\ last_op.ret = "False"
    /\ ~credentials.present
    /\ token_file.present /\ token_file.expired /\ token_file.refresh_token

\* C11 (SpecAuth): authenticate_with_code called after get_auth_url gives its
\* caller True or False and never an exception; it gives True only when
\* fetch_token succeeded and the session it produced is the valid session
\* held in memory and written to the token file; whenever fetch_token failed
\* it gives False and leaves the session and the token file as they were.
C11_TrueOnlyWhenPersisted ==
    [][(last_op'.op = "authenticate_with_code" /\ last_op'.had_flow)
          => /\ last_op'.ret \in {"True", "False"}
             /\ last_op'.ret = "True"
                   => /\ last_op'.exchange = "ok"
                      /\ Valid(credentials')
                      /\ token_file' = credentials'
                      /\ youtube'
             /\ last_op'.exchange = "failed"
                   => /\ last_op'.ret = "False"
                      /\ UNCHANGED <<credentials, token_file, youtube>>
      ]_vars

\* a code exchange after get_auth_url that returned True
C11_Witness ==
    /\ last_op.op = "authenticate_with_code"
    /\ last_op.had_flow
    /\ last_op.ret = "True"
    /\ token_file = credentials

\* C12 (SpecSync): create_playlist executes at most one playlists.insert
\* request, and once it has executed it its caller has the playlist or None,
\* never an exception, whatever executing the request did.
C12_CreateReturnsNullOnError ==
    /\ Cardinality({k \in 1..Len(api_calls) :
                       api_calls[k].op = "playlists.insert"}) <= 1
    /\ (\E k \in 1..Len(api_calls) : api_calls[k].op = "playlists.insert")
          => create_ret \in {"playlist", "None"}

\* C13 (SpecSync): every add_video_to_playlist call gave its caller True or
\* False, never an exception, whether the session was valid or had expired
\* when it was called, and executed at most one playlistItems.insert request.
C13_AppendNeverRaises ==
    /\ \A k \in 1..Len(append_outcomes) : append_outcomes[k].ret \in {"True", "False"}
    /\ Cardinality({k \in 1..Len(api_calls) :
                       api_calls[k].op = "playlistItems.insert"})
          <= Len(append_outcomes)

\* C14 (SpecSync): a create_playlist_from_tracks call that found no valid
\* session when it started (it has ended before create_playlist was called,
\* on a service that is not authenticated: the session cannot expire between
\* the first early return and the end of the call) made no write request and
\* returned a dictionary with success=False.
C14_AuthMissingIsReported ==
    (s_pc \in {"returned", "raised"} /\ create_ret = "none" /\ ~IsAuthenticated)
        => /\ api_calls = <<>>
           /\ s_pc = "returned"
           /\ s_result.kind = "result"
           /\ s_result.success = FALSE

\* the URL holds the address of a playlist followed by an identifier
WellFormed(url) ==
    \E i \in 1..Len(url) :
        /\ i + Len(PatternPrefix) <= Len(url)
        /\ \A k \in 1..Len(PatternPrefix) : url[i + k - 1] = PatternPrefix[k]
        /\ url[i + Len(PatternPrefix)] \in Alnum

\* id stands in url right after the address of a playlist that ends at
\* position i, and is all of the alphanumeric segment there
EmbeddedAt(url, i, id) ==
    /\ i >= Len(PatternPrefix)
    /\ SubSeq(url, i - Len(PatternPrefix) + 1, i) = PatternPrefix
    /\ id # <<>>
    /\ i + Len(id) <= Len(url)
    /\ SubSeq(url, i + 1, i + Len(id)) = id
    /\ \A k \in 1..Len(id) : id[k] \in Alnum
    /\ (i + Len(id) < Len(url)) => url[i + Len(id) + 1] \notin Alnum

\* C15 (SpecExtract): on a URL that holds the address of a playlist followed
\* by an identifier, extract_playlist_id returns the whole alphanumeric segment
\* that follows the first such address; on every other string it raises
\* ValueError and returns no identifier.
C15_ExtractsEmbeddedId ==
    ex_ret.kind # "none"
        => IF WellFormed(playlist_url)
           THEN /\ ex_ret.kind = "id"
                /\ \E i \in 1..Len(playlist_url) :
                      /\ EmbeddedAt(playlist_url, i, ex_ret.id)
                      /\ \A j \in 1..(i - 1) :
                            ~(/\ j >= Len(PatternPrefix)
                              /\ j < Len(playlist_url)
                              /\ SubSeq(playlist_url, j - Len(PatternPrefix) + 1, j)
                                    = PatternPrefix
                              /\ playlist_url[j + 1] \in Alnum)
           ELSE /\ ex_ret.kind = "ValueError"
                /\ ex_ret.id = <<>>

\* an identifier of two characters taken out of a URL that does not start
\* with the address
C15_Witness ==
    /\ ex_ret.kind = "id"
    /\ Len(ex_ret.id) = 2
    /\ playlist_url[1] = "?"

\* the results of confidence c, in the order of the list
WithConfidence(list, c) ==
    LET Is(r) == r.match_confidence = c IN SelectSeq(list, Is)

\* the results of the search API as search_track processes them, in the
\* API's order
ApiOrder ==
    [k \in DOMAIN st_api.results |-> Processed(st_artist, st_track, st_api.results[k])]

\* C16 (SpecSearch): when the search API returned results, the list
\* search_track returns is in descending order of match_confidence, and for
\* every confidence the results that have it stand in the list in the order in
\* which the search API returned them (so the list is a reordering of the
\* API's results that keeps ties in place).
C16_SortedStable ==
    (st_ret.kind # "none" /\ ~st_api.raises)
        => /\ st_ret.kind = "list"
           /\ Len(st_ret.list) = Len(st_api.results)
           /\ \A i \in 1..Len(st_ret.list) : \A j \in (i + 1)..Len(st_ret.list) :
                 st_ret.list[i].match_confidence >= st_ret.list[j].match_confidence
           /\ \A c \in 0..10 :
                 WithConfidence(st_ret.list, c) = WithConfidence(ApiOrder, c)

\* a search whose two different results have the same confidence
C16_Witness ==
    /\ st_ret.kind = "list"
    /\ Len(st_ret.list) = 2
    /\ st_ret.list[1] # st_ret.list[2]
    /\ st_ret.list[1].match_confidence = st_ret.list[2].match_confidence

\* C17 (SpecCache): no get_cached_image call ends by an exception, and a
\* call whose download met a transport error or timeout, a non-success
\* status, or a failure while the body was read, returned None.
C17_CacheNeverRaises ==
    \A u \in Urls \cup {NoUrl} :
        \A i \in 1..Len(cache_hist[u]) :
            /\ ~cache_hist[u][i].raised
            /\ cache_hist[u][i].resp \in {"transport", "status", "stream"}
                  => cache_hist[u][i].ret = NoPath

\* a call whose request was answered with a non-success status, after one
\* that met a transport error
C17_Witness ==
    \E u \in Urls :
        /\ Len(cache_hist[u]) = 2
        /\ cache_hist[u][1].resp = "transport"
        /\ cache_hist[u][2].resp = "status"
        /\ cache_hist[u][2].ret = NoPath

\* C18 (SpecMatch): get_best_matches gives the rows of the frame
\* search_playlist_tracks returned whose match_confidence is at least the
\* threshold, in their order, and the filter applied to what it gave, with
\* the same threshold, gives it again.
C18_FilterIsIdempotent ==
    best_matches.kind # "none"
        => LET AtLeast(r) == r.match_confidence >= best_matches.threshold
           IN /\ best_matches.kind = "frame"
              /\ best_matches.rows = SelectSeq(all_results, AtLeast)
              /\ FilterByConfidence(best_matches, best_matches.threshold)
                    = best_matches

\* needle stands somewhere in hay
Contains(hay, needle) ==
    \E i \in 0..Len(hay) :
        /\ i + Len(needle) <= Len(hay)
        /\ \A k \in 1..Len(needle) : hay[i + k] = needle[k]

\* the whitespace tokens of s: its maximal runs without a blank
Tokens(s) ==
    {SubSeq(s, i, j) : <<i, j>> \in
        {p \in (1..Len(s)) \X (1..Len(s)) :
            /\ p[1] <= p[2]
            /\ \A k \in p[1]..p[2] : s[k] # " "
            /\ (p[1] = 1 \/ s[p[1] - 1] = " ")
            /\ (p[2] = Len(s) \/ s[p[2] + 1] = " ")}}

\* C19 (SpecScore): the score of (artist, title, candidate) is
\* min(T + A + B, 1.0) in tenths, with T = 0.5 if the lowercase title is in
\* the lowercase candidate title, else 0.3 if a token of it longer than 2
\* characters is, else 0; A = 0.4 if a candidate artist name contains the
\* lowercase artist or is contained in it, else 0.2 if a token of the artist
\* longer than 2 characters is in a candidate artist name, else 0; B = 0.1
\* iff the titles are equal and a candidate artist equals the artist.
C19_ScoreFormula ==
    LET title == Lower(sc_track)
        artist == Lower(sc_artist)
        cand_title == Lower(sc_result.title)
        cand_artists == {Lower(sc_result.artists[k]) : k \in DOMAIN sc_result.artists}
        T == IF Contains(cand_title, title) THEN 5
             ELSE IF \E w \in Tokens(title) : Len(w) > 2 /\ Contains(cand_title, w)
                  THEN 3 ELSE 0
        A == IF \E c \in cand_artists : Contains(c, artist) \/ Contains(artist, c)
             THEN 4
             ELSE IF \E c \in cand_artists : \E w \in Tokens(artist) :
                         Len(w) > 2 /\ Contains(c, w)
                  THEN 2 ELSE 0
        B == IF title = cand_title /\ artist \in cand_artists THEN 1 ELSE 0
    IN \A k \in 1..Len(sc_score) :
          sc_score[k] = (IF T + A + B < 10 THEN T + A + B ELSE 10)

\* a score whose artist part is the 0.2 of a token: no candidate artist
\* contains "abc de" or is contained in it, and "abcx" contains "abc"
C19_Witness ==
    /\ sc_score # <<>>
    /\ sc_artist = Str_abc_de
    /\ sc_result.artists = <<Str_abcx>>
    /\ sc_track = Str_de
    /\ sc_result.title = Str_ABC_de
    /\ sc_score[1] = 7

\* every YouTube field of a result row is empty
TargetEmpty(r) ==
    /\ r.youtube_title = <<>>
    /\ r.youtube_artist = <<>>
    /\ r.youtube_album = ""
    /\ r.youtube_url = <<>>
    /\ r.youtube_video_id = ""
    /\ r.youtube_thumbnail = NoUrl
    /\ r.youtube_thumbnail_local = NoPath

RECURSIVE AllItems(_)
AllItems(pages) ==
    IF pages = <<>> THEN <<>> ELSE Head(pages).items \o AllItems(Tail(pages))

\* the items that carry a track
WithTrack(items) == LET Has(it) == it.present IN SelectSeq(items, Has)

\* C21 (SpecFetch): the k-th request of get_playlist_tracks asks for 100
\* entries at offset 100 * (k - 1); the rows collected are, in order, the
\* rows of the items with a track of the pages received so far, one row for
\* each of them and none for an item without track; and the call returns
\* them after the first page without next page.
C21_PagesInOrder ==
    /\ Len(f_requests) = Len(f_pages)
    /\ \A k \in 1..Len(f_requests) :
          f_requests[k] = [offset |-> 100 * (k - 1), limit |-> 100]
    /\ LET kept == WithTrack(AllItems(f_pages))
       IN /\ Len(tracks_data) = Len(kept)
          /\ \A k \in 1..Len(kept) :
                /\ tracks_data[k].track_name = kept[k].name
                /\ tracks_data[k].album_name = kept[k].album
                /\ tracks_data[k].spotify_url = kept[k].url
                /\ tracks_data[k].artist_name = JoinNames(kept[k].artists)
    /\ f_pc = "returned"
          => /\ f_pages # <<>>
             /\ f_pages[Len(f_pages)].kind = "page"
             /\ ~f_pages[Len(f_pages)].next

\* a call that returned after two pages, the first with an item without
\* track before an item with one
C21_Witness ==
    /\ f_pc = "returned"
    /\ Len(f_pages) = 2
    /\ Len(f_pages[1].items) = 2
    /\ ~f_pages[1].items[1].present
    /\ f_pages[1].items[2].present
    /\ Len(tracks_data) >= 2

\* C22 (SpecFetch): get_playlist_tracks asks for each offset once at most;
\* a page without next page, and a request that raised, are the last thing
\* the call received: after the first the call has returned, after the
\* second the exception has left it, and no request follows either.
C22_StopsAtLastPage ==
    /\ \A i \in 1..Len(f_requests) : \A j \in (i + 1)..Len(f_requests) :
          f_requests[i].offset # f_requests[j].offset
    /\ \A k \in 1..Len(f_pages) :
          /\ (f_pages[k].kind = "page" /\ ~f_pages[k].next)
                => (k = Len(f_pages) /\ f_pc = "returned")
          /\ f_pages[k].kind = "error"
                => (k = Len(f_pages) /\ f_pc = "raised")
    /\ f_pc = "loop" => offset = PageLimit * Len(f_pages)

\* an error on the second page ended the call
C22_Witness ==
    /\ f_pc = "raised"
    /\ Len(f_pages) = 2
    /\ f_pages[2].kind = "error"
    /\ tracks_data # <<>>

\* the callers that found no cached file for u and have sent their request
Downloaders(u) ==
    {c \in Callers : r_url[c] = u /\ r_probe[c] = "miss" /\ r_pc[c] # "get"}

\* the writes of caller c to cache files
WritesOf(c) == {k \in 1..Len(r_writes) : r_writes[k].caller = c}

\* C23 (SpecRace): nothing serializes the callers of get_cached_image: every
\* caller whose look into the cache found no file sends its own request,
\* whatever another caller has written since, and every caller that went on
\* to the file writes the cache file of its URL and extension; so two
\* callers that both found no file for one URL send two requests, and with
\* the same extension detected they write the same file.
C23_EveryMissDownloads ==
    /\ \A u \in Urls : requests[u] = Cardinality(Downloaders(u))
    /\ \A c \in Callers :
          /\ r_probe[c] = "hit" => (r_pc[c] = "done" /\ WritesOf(c) = {})
          /\ (r_probe[c] = "miss" /\ r_pc[c] \in {"stream", "done"}
                /\ r_ext[c] # "")
                => \E k \in WritesOf(c) :
                      /\ r_writes[k].path = CachePath(r_url[c], r_ext[c])
                      /\ WritesOf(c) = {k}
          /\ (r_pc[c] = "done" /\ r_ret[c] # NoPath /\ r_probe[c] = "miss")
                => r_ret[c] = CachePath(r_url[c], r_ext[c])

\* both callers found no file for the same URL, both sent a request, and
\* both wrote, and returned, the same cache file
C23_Witness ==
    /\ \A c \in Callers : r_pc[c] = "done" /\ r_probe[c] = "miss"
    /\ r_url[1] = r_url[2]
    /\ requests[r_url[1]] = 2
    /\ Len(r_writes) = 2
    /\ r_writes[1].path = r_writes[2].path
    /\ r_writes[1].caller # r_writes[2].caller
    /\ r_ret[1] = r_writes[1].path
    /\ r_ret[2] = r_ret[1]

\* the appends that add_video_to_playlist reported as done, in order
SucceededAppends ==
    LET Done(o) == o.ret = "True" IN SelectSeq(append_outcomes, Done)

\* C24 (SpecSync): at every point of create_playlist_from_tracks, and after
\* it has returned or raised, the playlist holds exactly the rows whose
\* append succeeded so far, in the order of the input; each of them is an
\* eligible row; and before the playlist is created it holds nothing.
C24_PlaylistIsSucceededAppends ==
    /\ ~playlist.created => (playlist.items = <<>> /\ append_outcomes = <<>>)
    /\ Len(playlist.items) = Len(SucceededAppends)
    /\ \A k \in 1..Len(playlist.items) :
          /\ playlist.items[k] = SucceededAppends[k].index
          /\ playlist.items[k] \in Eligible
          /\ k > 1 => playlist.items[k - 1] < playlist.items[k]

\* an exception left the loop after one append succeeded, with an
\* ineligible row before the appended one
C24_Witness ==
    /\ s_pc = "raised"
    /\ playlist.created
    /\ Len(playlist.items) = 1
    /\ playlist.items[1] > 1
    /\ 1 \notin Eligible
    /\ Len(append_outcomes) = 2

\* C27 (SpecSync): every dictionary with success=True has tracks_attempted =
\* tracks_added + len(failed_tracks), tracks_failed = len(failed_tracks),
\* and tracks_attempted + tracks_skipped = number of input rows.
C27_CountsAddUp ==
    (s_result.kind = "result" /\ s_result.success)
        => /\ s_result.tracks_attempted
                = s_result.tracks_added + Len(s_result.failed_tracks)
           /\ s_result.tracks_failed = Len(s_result.failed_tracks)
           /\ s_result.tracks_attempted + s_result.tracks_skipped = Len(tracks_df)

\* a success with one row added, one failed and one skipped
C27_Witness ==
    /\ s_result.kind = "result"
    /\ s_result.success
    /\ s_result.tracks_added = 1
    /\ Len(s_result.failed_tracks) = 1
    /\ s_result.tracks_skipped = 1

\* C25 (SpecAuth): whenever is_authenticated() answers True on a constructed
\* service, self.youtube has been built.
C25_AuthenticatedHasClient ==
    (svc = "ready" /\ IsAuthenticated) => youtube

\* C29 (SpecAuth): a construction whose refresh of the expired stored
\* session raised leaves the token file as it was, an expired session with
\* a refresh token, and holds no session in memory; the next
\* _load_credentials therefore attempts the refresh again.
C29_FailedRefreshKeepsStoredSession ==
    [][(last_op'.op = "construct" /\ last_op'.refresh = "failed")
          => /\ token_file' = token_file
             /\ token_file.present /\ token_file.expired /\ token_file.refresh_token
             /\ credentials' = NoCredentials
             /\ ~youtube'
             /\ LoadCredentials(TRUE, TRUE).refresh = "ok"
             /\ LoadCredentials(FALSE, TRUE).refresh = "failed"]_vars

\* a service constructed while the refresh failed: no session in memory,
\* the expired session still in the token file
C29_Witness ==
    /\ last_op.op = "construct"
    /\ last_op.refresh = "failed"
    /\ svc = "ready"
    /\ credentials = NoCredentials
    /\ token_file = Cred(TRUE, TRUE)

\* C26 (SpecCache): after a get_cached_image call that returned None because
\* its download failed, the cache holds no file for the URL; and the path a
\* call returns is the path of a file whose body was written completely.
C26_NoFileAfterFailedDownload ==
    \A u \in Urls :
        /\ (/\ cache_hist[u] # <<>>
            /\ cache_hist[u][Len(cache_hist[u])].ret = NoPath
            /\ cache_hist[u][Len(cache_hist[u])].req = 1)
              => ~\E f \in cache_files : f.url = u
        /\ \A i \in 1..Len(cache_hist[u]) :
              cache_hist[u][i].ret # NoPath
                 => \E f \in cache_files :
                       /\ f.url = u
                       /\ f.ext = cache_hist[u][i].ret.ext
                       /\ f.complete

\* C30 (SpecScore): in tenths, the score is one of 0, 2, 3, 4, 5, 7, 9, 10;
\* the sum of the title component, the artist component and the bonus is
\* at most 10, so the score is the sum itself; and the bonus is given only
\* with a title component of 5 and an artist component of 4, for a score
\* of exactly 10.
C30_ScoreValues ==
    LET title == Lower(sc_track)
        artist == Lower(sc_artist)
        cand_title == Lower(sc_result.title)
        cand_artists == {Lower(sc_result.artists[k]) : k \in DOMAIN sc_result.artists}
        T == IF Contains(cand_title, title) THEN 5
             ELSE IF \E w \in Tokens(title) : Len(w) > 2 /\ Contains(cand_title, w)
                  THEN 3 ELSE 0
        A == IF \E c \in cand_artists : Contains(c, artist) \/ Contains(artist, c)
             THEN 4
             ELSE IF \E c \in cand_artists : \E w \in Tokens(artist) :
                         Len(w) > 2 /\ Contains(c, w)
                  THEN 2 ELSE 0
        exact == title = cand_title /\ artist \in cand_artists
    IN /\ T + A + (IF exact THEN 1 ELSE 0) <= 10
       /\ exact => (T = 5 /\ A = 4)
       /\ \A k \in 1..Len(sc_score) :
             /\ sc_score[k] \in {0, 2, 3, 4, 5, 7, 9, 10}
             /\ sc_score[k] = T + A + (IF exact THEN 1 ELSE 0)
             /\ sc_score[k] = 10 <=> exact
             /\ ~exact => sc_score[k] = T + A

\* the bonus given on a candidate with two artists, the second of them the
\* artist asked for
C30_Witness ==
    /\ Len(sc_score) = 1
    /\ sc_score[1] = 10
    /\ Len(sc_result.artists) = 2
    /\ Lower(sc_result.artists[1]) # Lower(sc_artist)
    /\ Lower(sc_result.artists[2]) = Lower(sc_artist)

\* C28 (SpecFront): one press of the Create-playlist button leads to one
\* playlist on YouTube at most, whatever the runs of the script that follow
\* it do; and between two runs the flag pending_playlist_creation is not
\* set when a run has created a playlist.
C28_OnePressOnePlaylist ==
    /\ fe_playlists + (IF playlist.created THEN 1 ELSE 0) <= 1
    /\ (pending_playlist_creation /\ svc = "none") => fe_playlists = 0

=============================================================================
